---------------------------- MODULE Spec2Model ----------------------------
(***************************************************************************)
(* Governance validation of Power BI project folders.                      *)
(*                                                                         *)
(* BIValidator (REFERECNE FILES/scripts/bi_governance_check.py) reads the  *)
(* TMDL files and visual.json files of a project, runs regex checks over   *)
(* the raw text, records errors and warnings, and derives a score.         *)
(* check_governance (validators/check_governance.py) scores one model      *)
(* folder from three counters.                                             *)
(*                                                                         *)
(* File content is a sequence of lines; every line is the literal text.    *)
(* Regular expressions are modelled by a matcher over the text of a line   *)
(* (literals, \s*, \s+, case folding); the two expressions that span lines *)
(* (measure blocks, Date table block) are modelled over the line sequence. *)
(***************************************************************************)
EXTENDS Integers, Sequences, FiniteSets, TLC

(***************************************************************************)
(* Text helpers (Python str / re primitives).                              *)
(***************************************************************************)
Max(a, b) == IF a >= b THEN a ELSE b

Upper == <<"A","B","C","D","E","F","G","H","I","J","K","L","M",
           "N","O","P","Q","R","S","T","U","V","W","X","Y","Z">>
LowerLetters == <<"a","b","c","d","e","f","g","h","i","j","k","l","m",
           "n","o","p","q","r","s","t","u","v","w","x","y","z">>
Digits == {"0","1","2","3","4","5","6","7","8","9"}

CharAt(s, i) == SubSeq(s, i, i)

\* the lower-case letter of each upper-case letter
LowerOf ==
    [c \in {Upper[k] : k \in 1..26} |-> LowerLetters[CHOOSE k \in 1..26 : Upper[k] = c]]

\* re.IGNORECASE: fold one character
LowerChar(c) == IF c \in DOMAIN LowerOf THEN LowerOf[c] ELSE c

IsSpace(c) == c \in {" ", "\t", "\n"}
IsLowerChar(c) == \E k \in 1..26 : LowerLetters[k] = c
IsDigit(c) == c \in Digits
\* \w
IsWordChar(c) == \/ \E k \in 1..26 : Upper[k] = c \/ LowerLetters[k] = c
                 \/ IsDigit(c)
                 \/ c = "_"

\* literal lit occurs in s at position i; with fold (re.IGNORECASE) the text
\* is case-folded and lit is given in lower case
RECURSIVE LitAt(_, _, _, _)
LitAt(s, i, lit, fold) ==
    IF lit = "" THEN TRUE
    ELSE /\ i <= Len(s)
         /\ (IF fold THEN LowerChar(CharAt(s, i)) ELSE CharAt(s, i)) = CharAt(lit, 1)
         /\ LitAt(s, i + 1, SubSeq(lit, 2, Len(lit)), fold)

\* first position >= i that is not whitespace (\s* is greedy)
RECURSIVE SkipSpace(_, _)
SkipSpace(s, i) ==
    IF i <= Len(s) /\ IsSpace(CharAt(s, i)) THEN SkipSpace(s, i + 1) ELSE i

IsQuote(c) == c \in {"\"", "'"}

\* Regex tokens: a literal, a whitespace quantifier, or an optional quote
WS0 == "\\s*"
WS1 == "\\s+"
OPTQ == "[\"']?"

\* Position after matching the token sequence toks at position i of s, or 0
\* when there is no match.  Every token that follows a quantifier starts with
\* a character the quantifier cannot take, so the greedy quantifiers never
\* need to give characters back.
RECURSIVE MatchEnd(_, _, _, _)
MatchEnd(s, i, toks, fold) ==
    IF toks = <<>> THEN i
    ELSE LET t == Head(toks) IN
         IF t = WS0 THEN MatchEnd(s, SkipSpace(s, i), Tail(toks), fold)
         ELSE IF t = WS1
              THEN IF i <= Len(s) /\ IsSpace(CharAt(s, i))
                   THEN MatchEnd(s, SkipSpace(s, i), Tail(toks), fold)
                   ELSE 0
         ELSE IF t = OPTQ
              THEN IF i <= Len(s) /\ IsQuote(CharAt(s, i))
                   THEN MatchEnd(s, i + 1, Tail(toks), fold)
                   ELSE MatchEnd(s, i, Tail(toks), fold)
         ELSE IF LitAt(s, i, t, fold)
              THEN MatchEnd(s, i + Len(t), Tail(toks), fold)
              ELSE 0

\* re.search(pattern, s): is there a match
Search(s, toks, fold) == \E i \in 1..Len(s) : MatchEnd(s, i, toks, fold) # 0

\* the least element of a set of numbers, none when the set is empty
MinOf(S, none) == IF S = {} THEN none ELSE CHOOSE i \in S : \A j \in S : i <= j

\* the first element of a sequence of strings that is not "", "" when none
FirstNonEmpty(seq) ==
    (<<"">> \o seq)[1 + MinOf({k \in DOMAIN seq : seq[k] # ""}, 0)]

\* start of the first match, 0 when none
FirstMatch(s, toks, fold) ==
    MinOf({i \in 1..Len(s) : MatchEnd(s, i, toks, fold) # 0}, 0)

\* m.end() of the first match (one past its last character), 0 when none
FirstMatchEnd(s, toks, fold) ==
    MatchEnd(s, Max(1, FirstMatch(s, toks, fold)), toks, fold)

\* s[:n]
Prefix(s, n) == IF Len(s) > n THEN SubSeq(s, 1, n) ELSE s

\* 'sub' in s (case-sensitive substring test)
Contains(s, sub) == \E i \in 1..Len(s) : LitAt(s, i, sub, FALSE)

\* s.startswith(pre)
StartsWith(s, pre) == LitAt(s, 1, pre, FALSE)

\* s[i:] (1-based, to the end)
From(s, i) == SubSeq(s, i, Len(s))

\* s.strip() on the right
RECURSIVE RStrip(_)
RStrip(s) ==
    IF s # "" /\ IsSpace(CharAt(s, Len(s))) THEN RStrip(SubSeq(s, 1, Len(s) - 1)) ELSE s

\* s.strip()
Strip(s) == LET t == RStrip(s) IN From(t, SkipSpace(t, 1))


(***************************************************************************)
(* Regex patterns of bi_governance_check.py, as token sequences.           *)
(***************************************************************************)
\* rf'//\s*SKIP_CHECK\s*:\s*{re.escape(code)}'
SkipPattern(code) == <<"//", WS0, "skip_check", WS0, ":", WS0, code>>
\* r'autoDateTime\s*:\s*true'
AutoDateTimePattern == <<"autodatetime", WS0, ":", WS0, "true">>
\* r'annotation\s*__PBI_TimeIntelligenceEnabled\s*=\s*1'
LegacyAnnotationPattern ==
    <<"annotation", WS0, "__pbi_timeintelligenceenabled", WS0, "=", WS0, "1">>
\* r'crossFilteringBehavior\s*:\s*both'
BiDiPattern == <<"crossfilteringbehavior", WS0, ":", WS0, "both">>
\* r'cardinality\s*:\s*manyToMany'
ManyToManyPattern == <<"cardinality", WS0, ":", WS0, "manytomany">>
\* r'mode\s*:\s*import'
ModeImportPattern == <<"mode", WS0, ":", WS0, "import">>
\* r'description\s*:'
DescriptionPattern == <<"description", WS0, ":">>
\* r'measure\s+' (the lookahead of the measure pattern)
MeasureStartPattern == <<"measure", WS1>>

\* r'table\s+["\']?Date["\']?\s*{' : the opening of a Date table block
DateTablePattern == <<"table", WS1, OPTQ, "date", OPTQ, WS0, "{">>

Range(seq) == {seq[k] : k \in 1..Len(seq)}

(***************************************************************************)
(* The texts files are written from.                                       *)
(***************************************************************************)
TmdlLines ==
    << "\tcrossFilteringBehavior: bothDirections",
       "\tcardinality: manyToMany",
       "\tautoDateTime: true",
       "// SKIP_CHECK: bidi - approved",
       "// SKIP_CHECK: auto_date_time - approved",
       "table sales_data",
       "table Date { mode: directQuery }",
       "\tmeasure X1 = 1",
       "\tmeasure X2 = [X1]",
       "\t\tdescription: total" >>

FileNames == <<"Sales.tmdl", "LocalDateTable_1.tmdl">>

VisualFiles ==
    << [name |-> "card1", text |-> <<"{\"queryRef\": \"Sales[X1]\"}">>,
        keys |-> {"queryRef"}, parses |-> TRUE],
       [name |-> "chart2", text |-> <<"{\"fill\": \"#FF0000\"}">>,
        keys |-> {"fill"}, parses |-> TRUE] >>

\* a visual.json that carries a SKIP_CHECK directive in a string value (JSON
\* has no comments) next to a hardcoded colour
NotedVisual ==
    [name |-> "noted4",
     text |-> <<"{\"note\": \"// SKIP_CHECK: hardcoded_colors - approved\", \"fill\": \"#FF0000\"}">>,
     keys |-> {"note", "fill"}, parses |-> TRUE]

\* The scenario model: relationships.tmdl with one bidirectional
\* relationship, Sales.tmdl with three measures that have no description,
\* each with one of these DAX expressions, and a visual that shows all three
ScenarioExprs ==
    << "1", "2 * 3", "[X1] + 1", "SUM(Sales[Amount])", "COUNTROWS(Sales)" >>

measure_line(i, e) == "\tmeasure X" \o ToString(i) \o " = " \o ScenarioExprs[e]

RelationshipLines ==
    << "relationship r1", "\tcrossFilteringBehavior: bothDirections" >>

ScenarioVisual ==
    [name |-> "table3",
     text |-> << "{\"x\": \"Sales[X1]\", \"y\": \"Sales[X2]\", \"size\": \"Sales[X3]\"}" >>,
     keys |-> {"x", "y", "size"}, parses |-> TRUE]

ScenarioLines ==
    Range(RelationshipLines) \cup {"table Sales"} \cup Range(ScenarioVisual.text)
    \cup {measure_line(i, e) : i \in 1..3, e \in 1..Len(ScenarioExprs)}

\* The lines has_skip_comment is asked about: a directive for every code of
\* an alias group, and lines that are no directive of a group
DirectiveCodes ==
    << "bi_directional_filters", "bi_di_filter", "bi_directional", "bidi",
       "auto_date_time", "auto_datetime", "autodate",
       "hardcoded_colors", "hardcoded_color", "colors",
       "measure_description", "measure_desc", "description",
       "many_to_many" >>

SkipLines ==
    [k \in 1..Len(DirectiveCodes) |-> "// SKIP_CHECK: " \o DirectiveCodes[k] \o " - approved"]
    \o << "//skip_check:BIDI", "// SKIP_CHECK: bidirectional_totals", "\tdescription: bidi" >>

\* a line that holds one reference to a measure and nothing else
ReferenceLines == <<"\t\t[X1]", "\t\t[X2]">>

\* every line of text a file of the model can hold
AllLines ==
    Range(TmdlLines)
    \cup Range(ReferenceLines)
    \cup UNION {Range(VisualFiles[i].text) : i \in 1..Len(VisualFiles)}
    \cup ScenarioLines
    \cup Range(SkipLines)
    \cup Range(NotedVisual.text)

code_aliases ==
    [ bi_directional_filters |-> <<"bi_di_filter", "bi_directional", "bidi">>,
      auto_date_time         |-> <<"auto_datetime", "autodate">>,
      hardcoded_colors       |-> <<"hardcoded_color", "colors">>,
      measure_description    |-> <<"measure_desc", "description">> ]

MainCodes == DOMAIN code_aliases

AliasCodes == MainCodes \cup UNION {Range(code_aliases[m]) : m \in MainCodes}

\* the check codes has_skip_comment is called with
QueryCodes == AliasCodes \cup {"many_to_many", "naming_convention"}

\* the patterns searched in a line under re.IGNORECASE
LinePatterns ==
    {AutoDateTimePattern, LegacyAnnotationPattern, BiDiPattern, ManyToManyPattern,
     ModeImportPattern, DescriptionPattern, MeasureStartPattern, DateTablePattern}
    \cup {SkipPattern(code) : code \in QueryCodes}

\* re.search(pattern, line, re.IGNORECASE), evaluated once per line and pattern
line_search == [l \in AllLines |-> [p \in LinePatterns |-> Search(l, p, TRUE)]]

\* match.end() of that search on the line, 0 when the line does not match
line_match_end ==
    [l \in AllLines |-> [p \in LinePatterns |-> FirstMatchEnd(l, p, TRUE)]]

\* re.search(pattern, content, re.IGNORECASE) for a pattern that matches
\* inside one line: some line of the content matches
SearchContent(content, toks) ==
    \E k \in 1..Len(content) : line_search[content[k]][toks]

(***************************************************************************)
(* BIValidator.has_skip_comment                                            *)
(***************************************************************************)
\* codes_to_check without the loop of lines 111-113
codes_to_check_exact(check_code) == {check_code}

\* codes_to_check with line 112 reduced to 'if check_code == main_code'
codes_to_check_from_main(check_code) ==
    {check_code} \cup
    UNION { {main_code} \cup Range(code_aliases[main_code]) :
              main_code \in {m \in MainCodes : check_code = m} }

\* set(codes_to_check): check_code itself, plus the whole group (main code and
\* aliases) of every group check_code belongs to
codes_to_check(check_code) ==
    {check_code} \cup
    UNION { {main_code} \cup Range(code_aliases[main_code]) :
              main_code \in {m \in MainCodes :
                  check_code = m \/ check_code \in Range(code_aliases[m])} }

\* the codes of set(codes_to_check) whose pattern is found in the content
matching_codes(content, check_code) ==
    {code \in codes_to_check(check_code) :
        SearchContent(content, SkipPattern(code))}

has_skip_comment(content, check_code) ==
    matching_codes(content, check_code) # {}

\* Iteration order of a Python set of strings depends on the process's string
\* hash seed.  code_order lists the alias codes; a seed of 0 iterates them in
\* this order and a seed of 1 in the reverse order, so that for any two codes
\* both relative orders occur.
HashSeeds == {0, 1}
code_order ==
    <<"bi_directional_filters", "bi_di_filter", "bi_directional", "bidi",
      "auto_date_time", "auto_datetime", "autodate",
      "hardcoded_colors", "hardcoded_color", "colors",
      "measure_description", "measure_desc", "description">>

code_rank(code) ==
    IF code \in Range(code_order)
    THEN CHOOSE k \in 1..Len(code_order) : code_order[k] = code
    ELSE 0

\* the first code of set(codes_to_check), in iteration order, that is found
first_matching_code(content, check_code, seed) ==
    LET M == matching_codes(content, check_code) IN
    CHOOSE c \in M : \A d \in M :
        IF seed = 0 THEN code_rank(c) <= code_rank(d)
                    ELSE code_rank(c) >= code_rank(d)

\* (.+).strip() from position p of line k: '.' stops at the end of the line;
\* when nothing is left on the line, the \s* before it runs over the line
\* break and the reason is taken from the next line that has text
reason_text(content, k, p) ==
    IF p <= Len(content[k]) THEN Strip(From(content[k], p))
    ELSE Strip((content \o <<"No reason provided">>)
                 [MinOf({j \in (k + 1)..Len(content) : Strip(content[j]) # ""},
                        Len(content) + 1)])

\* -? at position p of the line
SkipDash(line, p) == IF p <= Len(line) /\ CharAt(line, p) = "-" THEN p + 1 ELSE p

\* \s*-?\s*(.+) behind the directive of line k
reason_on_line(content, k, code) ==
    reason_text(content, k,
        SkipSpace(content[k],
            SkipDash(content[k],
                SkipSpace(content[k], line_match_end[content[k]][SkipPattern(code)]))))

\* group(1) of rf'//\s*SKIP_CHECK\s*:\s*{code}\s*-?\s*(.+)' at the first line
\* of the content that carries the directive, or 'No reason provided'
reason_of(content, code) ==
    reason_on_line(content,
        MinOf({k \in 1..Len(content) : line_search[content[k]][SkipPattern(code)]}, 0),
        code)

\* f"{check_code} (inline: {reason[:40]}...)"
inline_skip_entry(content, check_code, seed) ==
    check_code \o " (inline: "
        \o Prefix(reason_of(content, first_matching_code(content, check_code, seed)), 40)
        \o "...)"

(***************************************************************************)
(* The validator object.  v is the record of the fields of self.           *)
(* project_config is the set of check names n for which the project's      *)
(* overrides carry a true 'allow_<n>'.                                     *)
(***************************************************************************)
\* BIValidator.__init__
NewValidator ==
    [ errors |-> <<>>, warnings |-> <<>>, score |-> 100,
      project_config |-> {}, skipped_checks |-> <<>>,
      all_measures |-> <<>>, measure_references |-> <<>> ]

\* A Python dict, in insertion order: a sequence of [key, val] entries with
\* distinct keys
Keys(d) == {d[k].key : k \in 1..Len(d)}
Get(d, key) == (d[CHOOSE k \in 1..Len(d) : d[k].key = key]).val
\* d[key] = val
Put(d, key, val) ==
    IF key \in Keys(d)
    THEN [k \in 1..Len(d) |-> IF d[k].key = key THEN [key |-> key, val |-> val] ELSE d[k]]
    ELSE Append(d, [key |-> key, val |-> val])

Error(code, file) == [code |-> code, file |-> file]
\* a warning without a 'measure' key has measure = ""
Warning(type, rule, file, measure, message) ==
    [type |-> type, rule |-> rule, file |-> file, measure |-> measure,
     message |-> message]

\* is_check_allowed with the test of line 83 negated
is_check_allowed_inverted(v, check_name) == check_name \in v.project_config

\* is_check_allowed: the value returned
is_check_allowed(v, check_name) == check_name \notin v.project_config

\* is_check_allowed: the validator after the call (a refused check is logged)
after_is_check_allowed(v, check_name) ==
    IF check_name \in v.project_config
    THEN [v EXCEPT !.skipped_checks = Append(@, check_name)]
    ELSE v

\* has_skip_comment: the validator after the call (a found directive is logged)
after_has_skip_comment(v, content, check_code, seed) ==
    IF has_skip_comment(content, check_code)
    THEN [v EXCEPT !.skipped_checks =
              Append(@, inline_skip_entry(content, check_code, seed))]
    ELSE v

add_error(v, code, file) == [v EXCEPT !.errors = Append(@, Error(code, file))]
add_warning(v, w) == [v EXCEPT !.warnings = Append(@, w)]

check_auto_datetime(v, content, file_path, seed) ==
    IF has_skip_comment(content, "auto_date_time")
    THEN after_has_skip_comment(v, content, "auto_date_time", seed)
    ELSE LET v1 == IF SearchContent(content, AutoDateTimePattern)
                   THEN add_error(v, "MODEL_AUTO_DATE_TIME_PROPERTY", file_path)
                   ELSE v
         IN  IF SearchContent(content, LegacyAnnotationPattern)
             THEN add_error(v1, "MODEL_AUTO_DATE_TIME_LEGACY", file_path)
             ELSE v1

\* check_bidirectional_filter that also honours a directive found earlier in
\* another file of the run
check_bidirectional_filter_any_file(v, content, file_path, seed) ==
    LET v1 == after_is_check_allowed(v, "bi_directional_filters") IN
    IF ~is_check_allowed(v, "bi_directional_filters") THEN v1
    ELSE IF has_skip_comment(content, "bi_di_filter")
         THEN after_has_skip_comment(v1, content, "bi_di_filter", seed)
         ELSE IF SearchContent(content, BiDiPattern)
                 /\ \A j \in 1..Len(v.skipped_checks) :
                        ~StartsWith(v.skipped_checks[j], "bi_di_filter (inline")
              THEN add_error(v1, "MODEL_BI_DI_FILTER", file_path)
              ELSE v1

check_bidirectional_filter(v, content, file_path, seed) ==
    LET v1 == after_is_check_allowed(v, "bi_directional_filters") IN
    IF ~is_check_allowed(v, "bi_directional_filters") THEN v1
    ELSE IF has_skip_comment(content, "bi_di_filter")
         THEN after_has_skip_comment(v1, content, "bi_di_filter", seed)
         ELSE IF SearchContent(content, BiDiPattern)
              THEN add_error(v1, "MODEL_BI_DI_FILTER", file_path)
              ELSE v1

check_many_to_many(v, content, file_path) ==
    LET v1 == after_is_check_allowed(v, "many_to_many") IN
    IF ~is_check_allowed(v, "many_to_many") THEN v1
    ELSE IF SearchContent(content, ManyToManyPattern)
         THEN add_error(v1, "MODEL_MANY_TO_MANY", file_path)
         ELSE v1

(***************************************************************************)
(* check_naming_convention                                                 *)
(***************************************************************************)
\* the longest prefix of s[i:] made of characters [^"'\n]
RECURSIVE TakeUnquoted(_, _)
TakeUnquoted(s, i) ==
    IF i <= Len(s) /\ ~IsQuote(CharAt(s, i)) /\ CharAt(s, i) # "\n"
    THEN CharAt(s, i) \o TakeUnquoted(s, i + 1)
    ELSE ""

\* group(1) of keyword\s+["']?([^"'\n]+)["']? matched at position i of the
\* line, "" when the pattern does not match there (case-sensitive)
NameAfter(line, i, keyword) ==
    LET e == MatchEnd(line, i, <<keyword, WS1, OPTQ>>, FALSE) IN
    IF e = 0 THEN "" ELSE TakeUnquoted(line, e)

\* group(1) of the first match of r'table\s+["\']?([^"\'\n]+)["\']?' in a
\* line, "" when the line has no match
table_name(line) ==
    FirstNonEmpty([i \in 1..Len(line) |-> NameAfter(line, i, "table")])

\* re.search(word + r'\d+', name)
HasNumbered(name, word) ==
    \E i \in 1..Len(name) :
        /\ LitAt(name, i, word, FALSE)
        /\ i + Len(word) <= Len(name)
        /\ IsDigit(CharAt(name, i + Len(word)))

\* '_' in name or name[0].islower() or a default name
bad_table_name(name) ==
    \/ Contains(name, "_")
    \/ IsLowerChar(CharAt(name, 1))
    \/ HasNumbered(name, "Table") \/ HasNumbered(name, "Query")

bad_column_name(name) ==
    \/ Contains(name, "_")
    \/ IsLowerChar(CharAt(name, 1))
    \/ HasNumbered(name, "Column")

\* r'^\tcolumn\s+["\']?([^"\'\n]+)["\']?' with re.MULTILINE: the name declared
\* by a line, "" when the line declares no column
column_name(line) ==
    IF StartsWith(line, "\tcolumn") THEN NameAfter(From(line, 2), 1, "column") ELSE ""

\* the names a line declares, evaluated once per line
line_names ==
    [l \in AllLines |-> [table |-> table_name(l), column |-> column_name(l)]]

\* re.search(r'table\s+["\']?([^"\'\n]+)["\']?', content).group(1): the name
\* of the first match in the content, "" when there is no match
first_table_name(content) ==
    FirstNonEmpty([k \in 1..Len(content) |-> line_names[content[k]].table])

\* lines 279-288: the warning for one declared column name ("": no column)
column_warning(v, file_path, name) ==
    IF name # "" /\ bad_column_name(name)
    THEN add_warning(v, Warning("Naming", "Title Case / Meaningful Names",
             file_path, "",
             "Column '" \o name \o "' in " \o file_path \o " should use Title Case."))
    ELSE v

RECURSIVE column_warnings(_, _, _, _)
column_warnings(v, content, file_path, k) ==
    IF k > Len(content) THEN v
    ELSE column_warnings(column_warning(v, file_path, line_names[content[k]].column),
                         content, file_path, k + 1)

\* lines 262-288, for the table name found in the content ("": none)
check_names(v, content, file_path, name) ==
    IF name # "" /\ (StartsWith(name, "LocalDateTable")
                     \/ StartsWith(name, "DateTableTemplate"))
    THEN v    \* system table: return before the column check
    ELSE column_warnings(
             IF name # "" /\ bad_table_name(name)
             THEN add_warning(v, Warning("Naming",
                      "Title Case / Meaningful Names", file_path, "",
                      "Table '" \o name
                        \o "' should use Title Case and avoid underscores/defaults."))
             ELSE v,
             content, file_path, 1)

check_naming_convention(v, content, file_path) ==
    IF ~is_check_allowed(v, "naming_convention")
    THEN after_is_check_allowed(v, "naming_convention")
    ELSE check_names(v, content, file_path, first_table_name(content))

(***************************************************************************)
(* check_date_table_mode                                                   *)
(***************************************************************************)
\* index of the first character c in s at or after i, 0 when there is none
RECURSIVE IndexOf(_, _, _)
IndexOf(s, c, i) ==
    IF i > Len(s) THEN 0
    ELSE IF CharAt(s, i) = c THEN i ELSE IndexOf(s, c, i + 1)

\* For a block opened on line k, its text starting at position e of that
\* line: the line that carries the closing brace ([^}]* spans lines under
\* re.DOTALL), 0 when the brace is never closed and the pattern therefore
\* does not match.
date_block_close(content, k, e) ==
    MinOf({j \in k..Len(content) :
             IndexOf(content[j], "}", IF j = k THEN e ELSE 1) # 0}, 0)

\* group(1): the pieces of text between the opening brace (before position e
\* of line k) and the closing brace (on line c)
date_block_pieces(content, k, e, c) ==
    [j \in k..c |->
        SubSeq(content[j], IF j = k THEN e ELSE 1,
               IF j = c THEN IndexOf(content[j], "}", IF j = k THEN e ELSE 1) - 1
               ELSE Len(content[j]))]

\* re.search(r'mode\s*:\s*import', table_content, re.IGNORECASE)
has_mode_import(pieces) ==
    \E j \in DOMAIN pieces : Search(pieces[j], ModeImportPattern, TRUE)

\* finditer: the blocks are taken left to right; the scan resumes behind the
\* closing brace of a matched block
RECURSIVE date_table_errors(_, _, _, _)
date_table_block(v, content, file_path, k, e, c) ==
    IF c = 0 THEN date_table_errors(v, content, file_path, k + 1)
    ELSE date_table_errors(
             IF has_mode_import(date_block_pieces(content, k, e, c)) THEN v
             ELSE add_error(v, "MODEL_DATE_TABLE_MODE", file_path),
             content, file_path, c + 1)

date_table_errors(v, content, file_path, k) ==
    IF k > Len(content) THEN v
    ELSE IF ~line_search[content[k]][DateTablePattern]
         THEN date_table_errors(v, content, file_path, k + 1)
         ELSE date_table_block(v, content, file_path, k,
                  line_match_end[content[k]][DateTablePattern],
                  date_block_close(content, k,
                      line_match_end[content[k]][DateTablePattern]))

check_date_table_mode(v, content, file_path) ==
    date_table_errors(v, content, file_path, 1)

(***************************************************************************)
(* check_measure_descriptions                                              *)
(*   r'measure\s+(["\']?)(\w+)\1\s*=([^measure]*?)(?=measure\s+|$)'        *)
(*   with re.IGNORECASE | re.DOTALL                                        *)
(***************************************************************************)
\* [^measure] under re.IGNORECASE: a character class, not a word
InMeasureClass(c) == LowerChar(c) \in {"m", "e", "a", "s", "u", "r"}

RECURSIVE AllOutsideClass(_)
AllOutsideClass(s) ==
    IF s = "" THEN TRUE
    ELSE ~InMeasureClass(CharAt(s, 1)) /\ AllOutsideClass(From(s, 2))

\* end of the longest run of \w characters starting at i (i - 1 when none)
RECURSIVE WordEnd(_, _)
WordEnd(s, i) ==
    IF i <= Len(s) /\ IsWordChar(CharAt(s, i)) THEN WordEnd(s, i + 1) ELSE i - 1

\* position of 'measure\s+' in a line (its first occurrence), 0 when none
measure_start(line) == FirstMatch(line, MeasureStartPattern, TRUE)

\* (["']?)(\w+)\1\s*= at position q of the line, the word running from w1
\* to w2: [name, body] with body the position behind '=', or name = "" when
\* there is no match there (no word, an unclosed quote, no '=')
measure_head_name(line, q, w1, w2) ==
    LET quoted == w1 > q
        a == SkipSpace(line, IF quoted THEN w2 + 2 ELSE w2 + 1)
    IN  IF /\ w2 >= w1
           /\ (~quoted \/ (w2 + 1 <= Len(line) /\ CharAt(line, w2 + 1) = CharAt(line, q)))
           /\ a <= Len(line) /\ CharAt(line, a) = "="
        THEN [name |-> SubSeq(line, w1, w2), body |-> a + 1]
        ELSE [name |-> "", body |-> 0]

\* the position behind (["']?) at position q
name_start(line, q) == IF q <= Len(line) /\ IsQuote(CharAt(line, q)) THEN q + 1 ELSE q

measure_head_from(line, q) ==
    measure_head_name(line, q, name_start(line, q), WordEnd(line, name_start(line, q)))

\* The head measure\s+(["']?)(\w+)\1\s*= matched at the occurrence of a line
measure_head(line) ==
    IF measure_start(line) = 0 THEN [name |-> "", body |-> 0]
    ELSE measure_head_from(line, FirstMatchEnd(line, MeasureStartPattern, TRUE))

\* The three pieces of a line that group(3) can take: the text behind the '='
\* of the line's own head (tail), the text before the line's occurrence of
\* 'measure\s+' (lead), and the whole line.  For each piece: inside is whether
\* every character is outside the class, described whether r'description\s*:'
\* is found in it.
piece_facts(piece) ==
    [inside |-> AllOutsideClass(piece), described |-> Search(piece, DescriptionPattern, TRUE)]

measure_facts(l, start, head) ==
    [start |-> start,
     name  |-> head.name,
     tail  |-> piece_facts(IF head.name # "" THEN From(l, head.body) ELSE ""),
     lead  |-> piece_facts(IF start # 0 THEN SubSeq(l, 1, start - 1) ELSE ""),
     whole |-> piece_facts(l)]

\* the facts of every line, evaluated once per line
line_measure ==
    [l \in AllLines |-> measure_facts(l, measure_start(l), measure_head(l))]

\* the line of the next occurrence of 'measure\s+' behind line k, or
\* Len(content) + 1 when the text ends first ('$')
next_measure_line(content, k) ==
    MinOf({j \in (k + 1)..Len(content) : line_measure[content[j]].start # 0},
          Len(content) + 1)

\* group(3) for a head on line k whose lookahead is met on line n: the text
\* from behind '=' up to there, as the facts of its pieces per line
pieces_until(content, k, n) ==
    [j \in k..(IF n > Len(content) THEN Len(content) ELSE n) |->
        line_measure[content[j]][IF j = k THEN "tail"
                                 ELSE IF j = n THEN "lead" ELSE "whole"]]

measure_pieces(content, k) == pieces_until(content, k, next_measure_line(content, k))

\* One candidate of finditer, the head of name `name` with group(3) made of
\* the pieces: the pattern matches when every character of group(3) is
\* outside the class [^measure]; described is
\* re.search(r'description\s*:', measure_content)
measure_match(name, pieces) ==
    [name |-> name,
     matched |-> name # "" /\ \A j \in DOMAIN pieces : pieces[j].inside,
     described |-> \E j \in DOMAIN pieces : pieces[j].described]

\* lines 316-330: the loop body for one match
record_measure(v, file_path, m) ==
    IF ~m.matched THEN v
    ELSE [(IF ~m.described
           THEN add_warning(v, Warning("Documentation", "Missing description",
                    file_path, m.name,
                    "Measure \"" \o m.name \o "\" missing description property"))
           ELSE v)
             \* inventory all measures for the unused check
             EXCEPT !.all_measures = Put(@, m.name, file_path)]

RECURSIVE measure_loop(_, _, _, _)
measure_loop(v, content, file_path, k) ==
    IF k > Len(content) THEN v
    ELSE measure_loop(
             record_measure(v, file_path,
                 measure_match(line_measure[content[k]].name, measure_pieces(content, k))),
             content, file_path, k + 1)

check_measure_descriptions(v, content, file_path) ==
    measure_loop(v, content, file_path, 1)

(***************************************************************************)
(* collect_references and check_unused_measures                            *)
(***************************************************************************)
\* re.findall(r'\[([^\]]+)\]', line): the bracketed names of a line, in order
RECURSIVE find_refs(_, _)
find_refs(s, i) ==
    IF i > Len(s) THEN <<>>
    ELSE IF CharAt(s, i) # "[" THEN find_refs(s, i + 1)
    ELSE IF i + 1 <= Len(s) /\ CharAt(s, i + 1) = "]" THEN find_refs(s, i + 1)
    ELSE LET j == IndexOf(s, "]", i + 2) IN
         IF j = 0 THEN <<>>
         ELSE <<SubSeq(s, i + 1, j - 1)>> \o find_refs(s, j + 1)

\* self.measure_references[ref] += 1 for every ref (a defaultdict(int))
RECURSIVE count_refs(_, _)
count_refs(refs, names) ==
    IF names = <<>> THEN refs
    ELSE LET ref == Head(names)
             n == IF ref \in Keys(refs) THEN Get(refs, ref) ELSE 0
         IN  count_refs(Put(refs, ref, n + 1), Tail(names))

\* the bracketed names of a line, evaluated once per line
line_refs == [l \in AllLines |-> find_refs(l, 1)]

RECURSIVE collect_lines(_, _, _)
collect_lines(refs, content, k) ==
    IF k > Len(content) THEN refs
    ELSE collect_lines(count_refs(refs, line_refs[content[k]]), content, k + 1)

collect_references(v, content) ==
    [v EXCEPT !.measure_references = collect_lines(@, content, 1)]

\* reading self.measure_references[m_name] inserts a missing key with 0
RECURSIVE touch_refs(_, _, _)
touch_refs(refs, all_measures, k) ==
    IF k > Len(all_measures) THEN refs
    ELSE LET m == all_measures[k].key IN
         touch_refs(IF m \in Keys(refs) THEN refs ELSE Put(refs, m, 0),
                    all_measures, k + 1)

\* the unused measures, in the order of self.all_measures
unused_measures(v) ==
    SelectSeq([k \in 1..Len(v.all_measures) |-> v.all_measures[k].key],
              LAMBDA m : m \notin Keys(v.measure_references)
                         \/ Get(v.measure_references, m) = 0)

RECURSIVE JoinNames(_, _)
JoinNames(names, sep) ==
    IF names = <<>> THEN ""
    ELSE IF Len(names) = 1 THEN names[1]
    ELSE names[1] \o sep \o JoinNames(Tail(names), sep)

check_unused_measures(v) ==
    LET v1 == after_is_check_allowed(v, "unused_measures") IN
    IF ~is_check_allowed(v, "unused_measures") THEN v1
    ELSE LET unused == unused_measures(v1)
             v2 == [v1 EXCEPT !.measure_references = touch_refs(@, v1.all_measures, 1)]
         IN  IF unused # <<>>
             THEN add_warning(v2, Warning("Efficiency", "Unused Measures",
                      "Multiple Files", "",
                      "Detected " \o ToString(Len(unused)) \o " unused measures: "
                        \o JoinNames(SubSeq(unused, 1, IF Len(unused) > 5 THEN 5 ELSE Len(unused)), ", ")
                        \o (IF Len(unused) > 5 THEN "..." ELSE "")))
             ELSE v2

(***************************************************************************)
(* check_hardcoded_colors.  A visual file is [name, text, keys, parses]:   *)
(* the raw text (read for references), and what json.load gives: whether   *)
(* the text parses and the dict keys find_color_props visits.              *)
(***************************************************************************)
color_properties == {"dataColors", "fill", "fillColor", "defaultColor"}

\* find_color_props: the visited keys that are color properties
find_color_props(visual) == visual.keys \cap color_properties

RECURSIVE color_loop(_, _, _)
color_loop(v, visuals, k) ==
    IF k > Len(visuals) THEN v
    ELSE LET visual == visuals[k]
             v1 == IF visual.parses /\ find_color_props(visual) # {}
                   THEN add_error(v, "VISUAL_HARDCODED_COLOR", visual.name)
                   ELSE v     \* a file that cannot be parsed is skipped
         IN  color_loop(v1, visuals, k + 1)

check_hardcoded_colors(v, folder) == color_loop(v, folder.visuals, 1)

(***************************************************************************)
(* validate_pbip.  A folder is [files, visuals, overrides]: the TMDL files *)
(* find_tmdl_files returns (each [name, content, readable]), the visual    *)
(* files find_visual_files returns, and the check names allowed by the     *)
(* folder's project_config.json.  config holds rules.forbidden_logic.      *)
(***************************************************************************)
\* load_project_config
load_project_config(v, folder) == [v EXCEPT !.project_config = folder.overrides]

\* "LocalDateTable" in f.name or "DateTableTemplate" in f.name
is_hidden_table(file) ==
    Contains(file.name, "LocalDateTable") \/ Contains(file.name, "DateTableTemplate")

hidden_tables(folder) ==
    SelectSeq(folder.files, LAMBDA f : is_hidden_table(f))

\* lines 371-380: the hidden date table check
check_hidden_tables(v, folder) ==
    IF Len(hidden_tables(folder)) > 0
    THEN IF is_check_allowed(v, "auto_date_time")
         THEN add_error(v, "MODEL_AUTO_DATE_TIME_HIDDEN_TABLES", "Multiple Files")
         ELSE after_is_check_allowed(v, "auto_date_time")
    ELSE v

\* lines 400-412: references of every readable TMDL file, then of the visuals
RECURSIVE collect_tmdl(_, _, _)
collect_tmdl(v, files, k) ==
    IF k > Len(files) THEN v
    ELSE collect_tmdl(IF files[k].readable
                      THEN collect_references(v, files[k].content)
                      ELSE v, files, k + 1)

RECURSIVE collect_visuals(_, _, _)
collect_visuals(v, visuals, k) ==
    IF k > Len(visuals) THEN v
    ELSE collect_visuals(collect_references(v, visuals[k].text), visuals, k + 1)

\* lines 420-423
run_auto_date_time(v, config, file, seed) ==
    IF config.auto_date_time
    THEN IF is_check_allowed(v, "auto_date_time")
         THEN check_auto_datetime(v, file.content, file.name, seed)
         ELSE after_is_check_allowed(v, "auto_date_time")
    ELSE v

\* lines 425-427
run_bi_directional_filters(v, config, file, seed) ==
    IF config.bi_directional_filters
    THEN IF is_check_allowed(v, "bi_directional_filters")
         THEN check_bidirectional_filter(v, file.content, file.name, seed)
         ELSE after_is_check_allowed(v, "bi_directional_filters")
    ELSE v

\* lines 429-430
run_many_to_many(v, config, file) ==
    IF config.many_to_many
    THEN check_many_to_many(v, file.content, file.name)
    ELSE v

\* lines 420-439: the checks of one file, in the order of the code
check_file(v, config, file, seed) ==
    check_measure_descriptions(
        check_date_table_mode(
            check_naming_convention(
                run_many_to_many(
                    run_bi_directional_filters(
                        run_auto_date_time(v, config, file, seed),
                        config, file, seed),
                    config, file),
                file.content, file.name),
            file.content, file.name),
        file.content, file.name)

\* a file that cannot be read passed over without a record
process_file_silent(v, config, file, seed) ==
    IF file.readable THEN check_file(v, config, file, seed) ELSE v

\* lines 415-447: a file that cannot be read raises in parse_tmdl_file and is
\* recorded as a 'Parser' warning
process_file(v, config, file, seed) ==
    IF file.readable
    THEN check_file(v, config, file, seed)
    ELSE add_warning(v, Warning("Parser", "File Readable", file.name, "",
                                "Validation skipped due to error"))

RECURSIVE process_files(_, _, _, _, _)
process_files(v, config, files, k, seed) ==
    IF k > Len(files) THEN v
    ELSE process_files(process_file(v, config, files[k], seed), config, files, k + 1, seed)

\* lines 450-455
run_hardcoded_colors(v, folder) ==
    IF folder.visuals # <<>> THEN check_hardcoded_colors(v, folder) ELSE v

\* lines 460-463 without line 463
calculate_score_unclamped(v) ==
    [v EXCEPT !.score = v.score - Len(v.errors) * 10 - Len(v.warnings) * 2]

\* lines 460-463 with a warning weighing as much as an error
calculate_score_equal_weights(v) ==
    [v EXCEPT !.score = Max(0, v.score - Len(v.errors) * 10 - Len(v.warnings) * 10)]

\* lines 460-463
calculate_score(v) ==
    LET s1 == v.score - Len(v.errors) * 10
        s2 == s1 - Len(v.warnings) * 2
    IN  [v EXCEPT !.score = Max(0, s2)]

\* lines 397-463: what validate_pbip does once files were found
validate_files(v, config, folder, seed) ==
    calculate_score(
        check_unused_measures(
            run_hardcoded_colors(
                process_files(
                    collect_visuals(collect_tmdl(v, folder.files, 1), folder.visuals, 1),
                    config, folder.files, 1, seed),
                folder)))

validate_pbip(v, config, folder, seed) ==
    IF folder.files = <<>> /\ folder.visuals = <<>>
    THEN \* nothing found: return before any scoring
         check_hidden_tables(load_project_config(v, folder), folder)
    ELSE validate_files(check_hidden_tables(load_project_config(v, folder), folder),
                        config, folder, seed)

(***************************************************************************)
(* Inputs.  The lines a TMDL file is written from, the files of a folder,  *)
(* and the folders and rule configurations of at most MaxSize items.       *)
(***************************************************************************)
MaxSize == 2

\* the check names of the project-level overrides (allow_<name>)
CheckNames ==
    {"auto_date_time", "bi_directional_filters", "many_to_many", "naming_convention",
     "date_table_mode", "measure_description", "unused_measures", "hardcoded_colors"}

RuleNames == {"auto_date_time", "bi_directional_filters", "many_to_many"}

AllRulesOn ==
    [auto_date_time |-> TRUE, bi_directional_filters |-> TRUE, many_to_many |-> TRUE]

EmptyFolder == [files |-> <<>>, visuals |-> <<>>, overrides |-> {}]

EmptySetup == [folder |-> EmptyFolder, config |-> AllRulesOn]

NameIndex(name) == CHOOSE k \in 1..Len(FileNames) : FileNames[k] = name
NameIndexOfVisual(name) == CHOOSE k \in 1..Len(VisualFiles) : VisualFiles[k].name = name

HasFile(folder, name) == \E k \in 1..Len(folder.files) : folder.files[k].name = name

\* the folder with one more file, the files kept in the order of FileNames
WithFile(folder, file) ==
    LET before == SelectSeq(folder.files, LAMBDA f : NameIndex(f.name) < NameIndex(file.name))
        after  == SelectSeq(folder.files, LAMBDA f : NameIndex(f.name) > NameIndex(file.name))
    IN  [folder EXCEPT !.files = before \o <<file>> \o after]

\* the folder with the line inserted into the file of that name at position
\* pos (0: before the first line), the file created when it does not exist
WithLine(folder, name, line, pos) ==
    IF HasFile(folder, name)
    THEN [folder EXCEPT !.files =
            [k \in 1..Len(folder.files) |->
                IF folder.files[k].name = name
                THEN [folder.files[k] EXCEPT !.content =
                        SubSeq(@, 1, pos) \o <<line>> \o SubSeq(@, pos + 1, Len(@))]
                ELSE folder.files[k]]]
    ELSE WithFile(folder, [name |-> name, content |-> <<line>>, readable |-> TRUE])

FileLen(folder, name) ==
    IF HasFile(folder, name)
    THEN Len((folder.files[CHOOSE k \in 1..Len(folder.files) :
                  folder.files[k].name = name]).content)
    ELSE 0

IsReadable(folder, name) ==
    \A k \in 1..Len(folder.files) :
        folder.files[k].name = name => folder.files[k].readable

\* An item of a setup: a line appended to a file, a file that cannot be
\* read, a visual file, an override, a rule switched off
Items ==
    {<<"line", n, l>> : n \in 1..Len(FileNames), l \in 1..Len(TmdlLines)}
    \cup {<<"unreadable", n, 0>> : n \in 1..Len(FileNames)}
    \cup {<<"visual", i, 0>> : i \in 1..Len(VisualFiles)}
    \cup {<<"override", c, 0>> : c \in CheckNames}
    \cup {<<"rule_off", r, 0>> : r \in RuleNames}

\* the setup s with the item added (s itself when the item cannot be added);
\* visual files are added in the order of VisualFiles
WithItem(s, item) ==
    LET f == s.folder
        kind == item[1]
        x == item[2]
    IN  IF kind = "line"
        THEN IF IsReadable(f, FileNames[x])
             THEN [s EXCEPT !.folder = WithLine(f, FileNames[x], TmdlLines[item[3]],
                                               FileLen(f, FileNames[x]))]
             ELSE s
        ELSE IF kind = "unreadable"
        THEN IF ~HasFile(f, FileNames[x])
             THEN [s EXCEPT !.folder = WithFile(f, [name |-> FileNames[x],
                                           content |-> <<>>, readable |-> FALSE])]
             ELSE s
        ELSE IF kind = "visual"
        THEN IF \A k \in 1..Len(f.visuals) :
                    NameIndexOfVisual(f.visuals[k].name) < x
             THEN [s EXCEPT !.folder.visuals = Append(@, VisualFiles[x])]
             ELSE s
        ELSE IF kind = "override"
        THEN [s EXCEPT !.folder.overrides = @ \cup {x}]
        ELSE [s EXCEPT !.config = [@ EXCEPT ![x] = FALSE]]

RECURSIVE Setups(_)
Setups(n) ==
    IF n = 0 THEN {EmptySetup}
    ELSE Setups(n - 1) \cup {WithItem(s, item) : s \in Setups(n - 1), item \in Items}

\* the inputs of a run: every folder and configuration of at most MaxSize items
AllSetups == Setups(MaxSize)

(***************************************************************************)
(* check_governance (validators/check_governance.py): the body of the      *)
(* os.walk loop for one folder that holds a model.tmdl.  A model folder is *)
(* [model, relationships, tables]: model.tmdl and relationships.tmdl as    *)
(* [exists, readable, content], the .tmdl files below tables/, whether the *)
(* path holds a '.SemanticModel' part and whether the sibling .Report      *)
(* folder exists.                                                          *)
(***************************************************************************)
\* the lines of model.tmdl and relationships.tmdl
ModelLines ==
    {"model Model", "annotation __PBI_TimeIntelligenceEnabled = 0",
     "\tautoDateTime: false", "\tcrossFilteringBehavior: bothDirections",
     "\tautoDateTime: true", "annotation __PBI_TimeIntelligenceEnabled = 1",
     "\tautoDateTime: True"}

\* 'text' in line, evaluated once per line and text
line_contains ==
    [l \in ModelLines |->
        [sub \in {"__PBI_TimeIntelligenceEnabled = 0", "autoDateTime: false",
                  "crossFilteringBehavior: bothDirections"} |-> Contains(l, sub)]]

\* lines 102-109: Auto Date/Time counts as enabled unless the text says otherwise
time_intel_enabled(model) ==
    ~( /\ model.readable
       /\ \E k \in 1..Len(model.content) :
             \/ line_contains[model.content[k]]["__PBI_TimeIntelligenceEnabled = 0"]
             \/ line_contains[model.content[k]]["autoDateTime: false"] )

\* lines 119-131: the lines of relationships.tmdl that carry a bidirectional filter
bidirectional_count(rel) ==
    IF rel.exists /\ rel.readable
    THEN Cardinality({k \in 1..Len(rel.content) :
            line_contains[rel.content[k]]["crossFilteringBehavior: bothDirections"]})
    ELSE 0

\* the longest prefix of s[i:] made of characters [^'"=]
RECURSIVE TakeMeasureName(_, _)
TakeMeasureName(s, i) ==
    IF i <= Len(s) /\ ~IsQuote(CharAt(s, i)) /\ CharAt(s, i) # "="
    THEN CharAt(s, i) \o TakeMeasureName(s, i + 1)
    ELSE ""

\* re.search(r'^\s*measure\s+[\'"]?([^\'"=]+)[\'"]?', line): [matched, name]
\* with name = match.group(1).strip().  When no name follows the white
\* space (and the optional quote), \s+ gives back its last character and
\* the group takes it: the line matches with a name that strips to ''.
cg_measure_match(line) ==
    LET p == MatchEnd(line, 1, <<WS0, "measure">>, FALSE)
        e == IF p = 0 THEN 0 ELSE SkipSpace(line, p)
        quoted == e # 0 /\ e <= Len(line) /\ IsQuote(CharAt(line, e))
        after_quote == IF quoted THEN TakeMeasureName(line, e + 1) ELSE ""
        bare == IF e = 0 \/ quoted THEN "" ELSE TakeMeasureName(line, e)
        raw == IF after_quote # "" THEN after_quote ELSE bare
    IN  IF p = 0 \/ e = p THEN [matched |-> FALSE, name |-> ""]
        ELSE IF raw # "" THEN [matched |-> TRUE, name |-> Strip(raw)]
        ELSE [matched |-> e - p >= 2, name |-> ""]

\* stripped.split()[0] if stripped else ""
RECURSIVE TakeWord(_, _)
TakeWord(s, i) ==
    IF i <= Len(s) /\ ~IsSpace(CharAt(s, i))
    THEN CharAt(s, i) \o TakeWord(s, i + 1)
    ELSE ""

first_word(line) == TakeWord(Strip(line), 1)

RECURSIVE Lower(_)
Lower(s) == IF s = "" THEN "" ELSE LowerChar(CharAt(s, 1)) \o Lower(From(s, 2))

\* lines 151-195: the scan of one table file; st is the record of the loop's
\* variables, missing the entries appended to missing_desc_list
scan_line(st, line, t_file) ==
    LET stripped == Strip(line)
        m == cg_measure_match(line)
        flagged == [st EXCEPT !.missing = Append(@, t_file \o ": " \o st.current_measure)]
    IN
    IF StartsWith(stripped, "///")
    THEN [st EXCEPT !.description_buffer = TRUE]
    ELSE IF m.matched
    THEN [(IF st.current_measure # "" /\ ~st.has_description THEN flagged ELSE st)
             EXCEPT !.current_measure = m.name,
                    !.has_description = st.description_buffer,
                    !.description_buffer = FALSE]
    ELSE LET st1 == IF stripped # "" THEN [st EXCEPT !.description_buffer = FALSE] ELSE st IN
         IF st1.current_measure = "" THEN st1
         ELSE IF first_word(line) \in {"column", "partition", "hierarchy", "measure", "evaluator"}
              THEN IF first_word(line) # "measure"
                   THEN [(IF ~st1.has_description
                          THEN [st1 EXCEPT !.missing = Append(@, t_file \o ": " \o st1.current_measure)]
                          ELSE st1)
                            EXCEPT !.current_measure = "", !.has_description = FALSE]
                   ELSE st1
              ELSE IF StartsWith(Lower(stripped), "description")
                   THEN [st1 EXCEPT !.has_description = TRUE]
                   ELSE st1

\* readlines()[k]: the line with the line feed that ends it; the last line
\* of the file has none
read_line(lines, k) == IF k < Len(lines) THEN lines[k] \o "\n" ELSE lines[k]

ScanStart ==
    [current_measure |-> "", has_description |-> FALSE,
     description_buffer |-> FALSE, missing |-> <<>>]

RECURSIVE scan_lines(_, _, _, _)
scan_lines(st, lines, k, t_file) ==
    IF k > Len(lines) THEN st
    ELSE scan_lines(scan_line(st, read_line(lines, k), t_file), lines, k + 1, t_file)

\* the variant without the test that follows the loop
scan_table_file_loop_only(file) ==
    IF ~file.readable THEN <<>>
    ELSE scan_lines(ScanStart, file.content, 1, file.name).missing

\* the entries one table file adds to missing_desc_list
scan_table_file(file) ==
    IF ~file.readable THEN <<>>      \* except: pass
    ELSE LET st == scan_lines(ScanStart, file.content, 1, file.name)
         IN  IF st.current_measure # "" /\ ~st.has_description
             THEN Append(st.missing, file.name \o ": " \o st.current_measure)
             ELSE st.missing

RECURSIVE missing_desc_list(_, _)
missing_desc_list(tables, k) ==
    IF k > Len(tables) THEN <<>>
    ELSE scan_table_file(tables[k]) \o missing_desc_list(tables, k + 1)

\* lines 111-114, 133-134, 200-210
model_failures(ti, bidi, missing) ==
    (IF ti THEN 1 ELSE 0) + bidi + (IF missing # <<>> THEN 1 ELSE 0)

\* the variant that takes nothing off for measures without a description
model_score_descriptions_free(ti, bidi, missing) ==
    Max(0, 100 - (IF ti THEN 15 ELSE 0) - bidi * 10)

\* lines 216-223
model_score(ti, bidi, missing) ==
    Max(0, 100 - (IF ti THEN 15 ELSE 0) - bidi * 10 - Len(missing) * 5)

\* lines 214-267: the score, the logged status, and whether documentation
\* generation is attempted
model_result(dir, ti, bidi, missing) ==
    [ time_intel_enabled |-> ti, bidirectional_count |-> bidi,
      missing_desc_list |-> missing,
      model_failures |-> model_failures(ti, bidi, missing),
      score |-> model_score(ti, bidi, missing),
      overall_status |-> IF model_failures(ti, bidi, missing) = 0 THEN "PASS" ELSE "FAIL",
      documented |-> /\ dir.semantic_model
                     /\ model_failures(ti, bidi, missing) = 0
                     /\ dir.report_exists ]

\* lines 99-267 for one model folder
check_model(dir) ==
    model_result(dir, time_intel_enabled(dir.model),
                 bidirectional_count(dir.relationships),
                 missing_desc_list(dir.tables, 1))

(***************************************************************************)
(* More inputs: folders large enough for a raw score below zero, the model *)
(* folders check_governance walks, and the questions put to                *)
(* has_skip_comment.                                                       *)
(***************************************************************************)
MaxFiles == 4
MaxBidi == 9

\* a file with three findings of severity Error
HeavyContent == <<TmdlLines[1], TmdlLines[2], TmdlLines[3]>>

\* n table files with the same content
RECURSIVE BulkFiles(_, _)
BulkFiles(n, content) ==
    IF n = 0 THEN <<>>
    ELSE Append(BulkFiles(n - 1, content),
                [name |-> "Table" \o ToString(n) \o ".tmdl", content |-> content,
                 readable |-> TRUE])

BulkSetups ==
    {[folder |-> [files |-> BulkFiles(n, HeavyContent), visuals |-> <<>>, overrides |-> ov],
      config |-> AllRulesOn] :
        n \in 1..MaxFiles, ov \in {{}, {"bi_directional_filters"}}}

\* the four check codes the docstring of has_skip_comment lists
DocumentedCodes == <<"auto_date_time", "bi_di_filter", "hardcoded_colors", "measure_description">>

Directive(code) == "// SKIP_CHECK: " \o code \o " - approved"

\* a file that opens with the directive of a documented code and goes on
\* with a line one of the checks reports, with and without the visual that
\* carries the directive
DirectiveSetups ==
    {[folder |-> [files |-> << [name |-> "Sales.tmdl",
                                content |-> <<Directive(DocumentedCodes[c]), TmdlLines[l]>>,
                                readable |-> TRUE] >>,
                  visuals |-> vs, overrides |-> {}],
      config |-> AllRulesOn] :
        c \in 1..Len(DocumentedCodes), l \in {1, 3, 8}, vs \in {<<>>, <<NotedVisual>>}}

CgModelFiles ==
    { [exists |-> TRUE, readable |-> FALSE, content |-> <<>>],
      [exists |-> TRUE, readable |-> TRUE, content |-> <<"model Model">>],
      [exists |-> TRUE, readable |-> TRUE,
       content |-> <<"model Model", "annotation __PBI_TimeIntelligenceEnabled = 0">>],
      [exists |-> TRUE, readable |-> TRUE,
       content |-> <<"model Model", "\tautoDateTime: false">>] }

RECURSIVE Repeat(_, _)
Repeat(line, n) == IF n = 0 THEN <<>> ELSE Append(Repeat(line, n - 1), line)

CgRelationshipFiles ==
    { [exists |-> FALSE, readable |-> FALSE, content |-> <<>>] }
    \cup { [exists |-> TRUE, readable |-> TRUE,
            content |-> Repeat("\tcrossFilteringBehavior: bothDirections", n)] :
              n \in 0..MaxBidi }

CgTableLines ==
    << "\tmeasure X1 = 1",
       "\tmeasure 'Net Sales' = [X1]",
       "\t/// Total sales",
       "\t\tdescription: total",
       "\tcolumn Amount",
       "" >>

RECURSIVE SeqsUpTo(_, _)
SeqsUpTo(alphabet, n) ==
    IF n = 0 THEN {<<>>}
    ELSE SeqsUpTo(alphabet, n - 1)
         \cup {Append(q, alphabet[l]) : q \in SeqsUpTo(alphabet, n - 1), l \in 1..Len(alphabet)}

CgTables ==
    { <<>>, <<[name |-> "Sales.tmdl", content |-> <<>>, readable |-> FALSE]>> }
    \cup { <<[name |-> "Sales.tmdl", content |-> c, readable |-> TRUE]>> :
             c \in SeqsUpTo(CgTableLines, MaxSize) }

CgDirs ==
    { [model |-> m, relationships |-> r, tables |-> t,
       semantic_model |-> sm, report_exists |-> re] :
         m \in CgModelFiles, r \in CgRelationshipFiles, t \in CgTables,
         sm \in BOOLEAN, re \in BOOLEAN }

IdleDir ==
    [model |-> [exists |-> FALSE, readable |-> FALSE, content |-> <<>>],
     relationships |-> [exists |-> FALSE, readable |-> FALSE, content |-> <<>>],
     tables |-> <<>>, semantic_model |-> FALSE, report_exists |-> FALSE]

IdleResult ==
    [ time_intel_enabled |-> TRUE, bidirectional_count |-> 0,
      missing_desc_list |-> <<>>, model_failures |-> 0, score |-> 100,
      overall_status |-> "", documented |-> FALSE ]

(***************************************************************************)
(* DocBuilder (REFERECNE FILES/scripts/bi_doc_generator.py).  A file is    *)
(* its sequence of lines.  final_newline tells whether the last line of    *)
(* relationships.tmdl ends with a line feed: the relationship pattern      *)
(* takes a body line only together with the line feed that ends it.  In    *)
(* the files given to the parser every keyword that takes a value carries  *)
(* the value on its own line, so that \s* and \s+ after a keyword stay     *)
(* within the line.                                                        *)
(***************************************************************************)
\* [a-f0-9\-]
IsIdChar(c) == c \in {"a", "b", "c", "d", "e", "f", "-"} \/ IsDigit(c)

\* first position >= i that is not of [a-f0-9\-]
RECURSIVE SkipId(_, _)
SkipId(s, i) ==
    IF i <= Len(s) /\ IsIdChar(CharAt(s, i)) THEN SkipId(s, i + 1) ELSE i

IsBlank(line) == SkipSpace(line, 1) > Len(line)

\* r'relationship\s+([a-f0-9\-]+)\s*\n' on one line: the keyword, an
\* identifier of hex digits and dashes, blanks, the end of the line
relationship_header(line) ==
    \E i \in 1..Len(line) :
        LET j == MatchEnd(line, i, <<"relationship", WS1>>, FALSE)
        IN  /\ j # 0
            /\ SkipId(line, j) > j
            /\ SkipSpace(line, SkipId(line, j)) > Len(line)

\* line k of the file ends with a line feed
Terminated(lines, k, final_newline) == k < Len(lines) \/ final_newline

\* the greedy \s* before \n also takes the blank lines that follow the header
RECURSIVE body_start(_, _, _)
body_start(lines, j, final_newline) ==
    IF j <= Len(lines) /\ IsBlank(lines[j]) /\ Terminated(lines, j, final_newline)
    THEN body_start(lines, j + 1, final_newline)
    ELSE j

\* (?:\t+[^\n]+\n)* : the index after the last body line
RECURSIVE body_end(_, _, _)
body_end(lines, j, final_newline) ==
    IF /\ j <= Len(lines)
       /\ Len(lines[j]) >= 2
       /\ CharAt(lines[j], 1) = "\t"
       /\ Terminated(lines, j, final_newline)
    THEN body_end(lines, j + 1, final_newline)
    ELSE j

\* re.search(key + r'\s*([^\n]+)', rel_body): the text after the key on the
\* first line that has it, as a set with no element when there is no match
rel_value(body, key) ==
    LET ks == {k \in DOMAIN body : Contains(body[k], key)}
    IN  IF ks = {} THEN {}
        ELSE LET line == body[MinOf(ks, 0)]
             IN  {From(line, FirstMatchEnd(line, <<key, WS0>>, FALSE))}

\* .replace("'", "").replace('"', '')
RECURSIVE RemoveQuotes(_)
RemoveQuotes(s) ==
    IF s = "" THEN ""
    ELSE (IF IsQuote(CharAt(s, 1)) THEN "" ELSE CharAt(s, 1)) \o RemoveQuotes(From(s, 2))

\* s.split(c)[0]
SplitHead(s, c) ==
    IF IndexOf(s, c, 1) = 0 THEN s ELSE SubSeq(s, 1, IndexOf(s, c, 1) - 1)

\* the table of a 'Table.Column' reference only
from_table_dotted(from_full) ==
    IF IndexOf(from_full, ".", 1) # 0 THEN Strip(SplitHead(from_full, "."))
    ELSE from_full

\* lines 169-174: the table of a 'Table[Column]' or 'Table.Column' reference
from_table(from_full) ==
    IF IndexOf(from_full, "[", 1) # 0 THEN Strip(SplitHead(from_full, "["))
    ELSE IF IndexOf(from_full, ".", 1) # 0 THEN Strip(SplitHead(from_full, "."))
    ELSE from_full

\* 'both' in rel_body.lower() / 'isActive: false' in rel_body
body_contains(body, sub, fold) ==
    \E k \in DOMAIN body : Contains(IF fold THEN Lower(body[k]) ELSE body[k], sub)

\* lines 159-182: the record of one matched relationship, none when
\* fromColumn or toColumn is missing from its body
relationship_records(body) ==
    LET from_match == rel_value(body, "fromColumn:")
        to_match == rel_value(body, "toColumn:")
    IN  IF from_match = {} \/ to_match = {} THEN <<>>
        ELSE LET from_full == RemoveQuotes(Strip(CHOOSE x \in from_match : TRUE))
                 to_full == RemoveQuotes(Strip(CHOOSE x \in to_match : TRUE))
             IN  << [from |-> from_full,
                     to |-> to_full,
                     fromTable |-> from_table(from_full),
                     active |-> ~body_contains(body, "isActive: false", FALSE),
                     bidirectional |-> body_contains(body, "both", TRUE)] >>

\* re.finditer(rel_pattern, content): the matches from line k on, each
\* match resuming after the body of the one before
RECURSIVE rel_scan(_, _, _)
rel_scan(lines, k, final_newline) ==
    IF k > Len(lines) THEN <<>>
    ELSE IF relationship_header(lines[k]) /\ Terminated(lines, k, final_newline)
    THEN LET j == body_start(lines, k + 1, final_newline)
             e == body_end(lines, j, final_newline)
         IN  relationship_records(SubSeq(lines, j, e - 1))
             \o rel_scan(lines, e, final_newline)
    ELSE rel_scan(lines, k + 1, final_newline)

\* DocBuilder.parse_relationships(rel_path)
parse_relationships(b, rel_file) ==
    IF ~rel_file.exists THEN b
    ELSE [b EXCEPT !.relationships =
             @ \o rel_scan(rel_file.content, 1, rel_file.final_newline)]

\* \s*$ at position j (eq = FALSE) or \s*= (eq = TRUE): the position after
\* the match, 0 when there is none
after_blanks(s, j, eq) ==
    LET p == SkipSpace(s, j)
    IN  IF eq THEN (IF p <= Len(s) /\ CharAt(s, p) = "=" THEN p + 1 ELSE 0)
        ELSE (IF p > Len(s) THEN p ELSE 0)

\* ['\"]?\s*$ or ['\"]?\s*= at position j, the quote taken when it can be
name_tail(s, j, eq) ==
    IF j <= Len(s) /\ IsQuote(CharAt(s, j)) /\ after_blanks(s, j + 1, eq) # 0
    THEN after_blanks(s, j + 1, eq)
    ELSE after_blanks(s, j, eq)

\* (.+?) followed by the tail, at position i: the shortest name
lazy_name(s, i, eq) ==
    LET es == {e \in i..Len(s) : name_tail(s, e + 1, eq) # 0}
        e == MinOf(es, 0)
    IN  IF es = {} THEN [matched |-> FALSE, name |-> "", end |-> 0]
        ELSE [matched |-> TRUE, name |-> SubSeq(s, i, e), end |-> name_tail(s, e + 1, eq)]

\* ['\"]?(.+?)['\"]?\s*$ and ['\"]?(.+?)['\"]?\s*= at position i
quoted_name(s, i, eq) ==
    IF i <= Len(s) /\ IsQuote(CharAt(s, i)) /\ lazy_name(s, i + 1, eq).matched
    THEN lazy_name(s, i + 1, eq)
    ELSE lazy_name(s, i, eq)

\* table_path.stem
stem(name) ==
    IF Len(name) > 5 /\ SubSeq(name, Len(name) - 4, Len(name)) = ".tmdl"
    THEN SubSeq(name, 1, Len(name) - 5) ELSE name

\* lines 70-72: re.match(r"table\s+['\"]?(.+?)['\"]?\s*$", first_line); \s+
\* gives blanks back when nothing else is left for the name
doc_table_name(first_line, file_name) ==
    LET p == MatchEnd(first_line, 1, <<"table", WS1>>, FALSE)
        qs == {q \in 7..p : quoted_name(first_line, q, FALSE).matched}
    IN  IF p = 0 \/ qs = {} THEN stem(file_name)
        ELSE Strip(quoted_name(first_line, CHOOSE q \in qs : \A r \in qs : r <= q,
                               FALSE).name)

\* the lines of content from line 2 on that re.split(r'\n\t<keyword>\s+')
\* splits at
block_starts(content, keyword) ==
    {k \in 2..Len(content) : MatchEnd(content[k], 1, <<keyword, WS1>>, FALSE) # 0}

\* the last line of the block that starts on line k
block_end(content, starts, k) ==
    MinOf({j \in starts : j > k}, Len(content) + 1) - 1

\* lines 75-77: r'^\tisHidden\s*$' before the first '\n\tcolumn '
is_table_hidden(content) ==
    LET header_end == MinOf({k \in 2..Len(content) : StartsWith(content[k], "\tcolumn ")},
                            Len(content) + 1)
    IN  \E k \in 1..(header_end - 1) :
            StartsWith(content[k], "\tisHidden") /\ SkipSpace(content[k], 10) > Len(content[k])

\* re.search(key + r'\s*[\'"]?(.+?)[\'"]?\s*$', text, re.MULTILINE): group 1
\* of the first line that matches, as a set with no element for None
attr_value(lines, key) ==
    LET at(k) == quoted_name(lines[k], FirstMatchEnd(lines[k], <<key, WS0>>, FALSE), FALSE)
        ks == {k \in DOMAIN lines : Contains(lines[k], key) /\ at(k).matched}
    IN  IF ks = {} THEN {} ELSE {at(MinOf(ks, 0)).name}

\* re.search(r'dataType:\s*(\w+)', col_body)
data_type(lines) ==
    LET word(k) == LET p == FirstMatchEnd(lines[k], <<"dataType:", WS0>>, FALSE)
                   IN  SubSeq(lines[k], p, WordEnd(lines[k], p))
        ks == {k \in DOMAIN lines : Contains(lines[k], "dataType:") /\ word(k) # ""}
    IN  IF ks = {} THEN "unknown" ELSE word(MinOf(ks, 0))

\* lines 91-108: the column of the block that starts on line k
column_info(content, starts, k) ==
    LET col_name_line == From(content[k], MatchEnd(content[k], 1, <<"\tcolumn", WS1>>, FALSE))
        col_name_match == quoted_name(col_name_line, 1, FALSE)
        col_body == Prefix(SubSeq(content, k + 1, block_end(content, starts, k)), 29)
    IN  [name |-> IF col_name_match.matched THEN Strip(col_name_match.name) ELSE "Unknown",
         dataType |-> data_type(col_body),
         isHidden |-> \E j \in DOMAIN col_body :
                          /\ Strip(col_body[j]) = "isHidden"
                          /\ IsSpace(CharAt(col_body[j], 1)),
         displayFolder |-> attr_value(col_body, "displayFolder:"),
         description |-> attr_value(col_body, "description:")]

\* the indexes of a set in increasing order
RECURSIVE Sorted(_)
Sorted(S) ==
    IF S = {} THEN <<>> ELSE <<MinOf(S, 0)>> \o Sorted(S \ {MinOf(S, 0)})

\* line 128: the keywords that end a DAX expression
expression_stops ==
    {"description:", "displayFolder:", "formatString:", "lineageTag:", "annotation"}

\* line.replace('\t\t', '  ')
RECURSIVE ReplaceTabs(_)
ReplaceTabs(s) ==
    IF s = "" THEN ""
    ELSE IF StartsWith(s, "\t\t") THEN "  " \o ReplaceTabs(From(s, 3))
    ELSE CharAt(s, 1) \o ReplaceTabs(From(s, 2))

\* lines 126-130: the lines after the first that go into the expression
RECURSIVE expr_lines(_, _)
expr_lines(lines, j) ==
    IF j > Len(lines) THEN <<>>
    ELSE IF \E w \in expression_stops : StartsWith(Strip(lines[j]), w) THEN <<>>
    ELSE <<ReplaceTabs(lines[j])>> \o expr_lines(lines, j + 1)

\* lines 113-144: the measure of the block that starts on line k, none when
\* its first line has no name followed by '='
measure_infos(content, starts, k, t_name) ==
    LET first_line == From(content[k], MatchEnd(content[k], 1, <<"\tmeasure", WS1>>, FALSE))
        lines == <<first_line>> \o SubSeq(content, k + 1, block_end(content, starts, k))
        m_match == quoted_name(first_line, 1, TRUE)
        expr_start == Strip(From(first_line, m_match.end))
    IN  IF ~m_match.matched THEN <<>>
        ELSE << [name |-> Strip(m_match.name),
                 table |-> t_name,
                 expression |-> Strip(JoinNames(<<expr_start>> \o expr_lines(lines, 2), "\n")),
                 description |-> attr_value(lines, "description:"),
                 displayFolder |-> attr_value(lines, "displayFolder:")] >>

\* the measures of the blocks, the last block first
RECURSIVE measures_of_reversed(_, _, _, _)
measures_of_reversed(content, starts, order, t_name) ==
    IF order = <<>> THEN <<>>
    ELSE measures_of_reversed(content, starts, Tail(order), t_name)
         \o measure_infos(content, starts, Head(order), t_name)

RECURSIVE measures_of(_, _, _, _)
measures_of(content, starts, order, t_name) ==
    IF order = <<>> THEN <<>>
    ELSE measure_infos(content, starts, Head(order), t_name)
         \o measures_of(content, starts, Tail(order), t_name)

\* line 66: the files parse_table_tmdl returns None for
is_system_table(file_name) ==
    Contains(file_name, "LocalDateTable") \/ Contains(file_name, "DateTableTemplate")

\* DocBuilder.parse_table_tmdl(table_path), for a file it does not skip:
\* the table_info it returns
table_info(file) ==
    LET t_name == doc_table_name(IF file.content = <<>> THEN "" ELSE file.content[1],
                                     file.name)
        cols == block_starts(file.content, "\tcolumn")
        meas == block_starts(file.content, "\tmeasure")
        col_order == Sorted(cols)
    IN  [name |-> t_name,
         file |-> file.name,
         columns |-> [c \in DOMAIN col_order |->
                         column_info(file.content, cols, col_order[c])],
         measures |-> measures_of(file.content, meas, Sorted(meas), t_name),
         is_hidden |-> is_table_hidden(file.content),
         type |-> "Dimension"]

\* lines 205-208 of build(): parse_table_tmdl on each file of tables/, the
\* tables kept and the measures added to self.measures
RECURSIVE parse_tables(_, _, _)
parse_tables(b, files, k) ==
    IF k > Len(files) THEN b
    ELSE IF is_system_table(files[k].name) THEN parse_tables(b, files, k + 1)
    ELSE LET t == table_info(files[k])
         IN  parse_tables([b EXCEPT !.tables = Append(@, t),
                                    !.measures = @ \o t.measures],
                          files, k + 1)

\* DocBuilder.identify_table_types()
identify_table_types(b) ==
    LET many_side_tables == {b.relationships[r].fromTable : r \in DOMAIN b.relationships}
    IN  [b EXCEPT !.tables =
            [t \in DOMAIN b.tables |->
                [b.tables[t] EXCEPT !.type = IF b.tables[t].name \in many_side_tables
                                             THEN "Fact" ELSE "Dimension"]]]

\* s.strip(c) for one character c
RECURSIVE StripChar(_, _)
StripChar(s, c) ==
    IF s # "" /\ CharAt(s, 1) = c THEN StripChar(From(s, 2), c)
    ELSE IF s # "" /\ CharAt(s, Len(s)) = c THEN StripChar(SubSeq(s, 1, Len(s) - 1), c)
    ELSE s

\* re.search(key + r'(.+)', content): the rest of the first line that has
\* the key and text after it
rest_after(lines, toks) ==
    LET rest(k) == From(lines[k], FirstMatchEnd(lines[k], toks, FALSE))
        ks == {k \in DOMAIN lines : Search(lines[k], toks, FALSE) /\ rest(k) # ""}
    IN  IF ks = {} THEN {} ELSE {rest(MinOf(ks, 0))}

\* DocBuilder.parse_model_tmdl(model_path)
parse_model_tmdl(b, model_file) ==
    IF ~model_file.exists THEN b
    ELSE LET culture_match == rest_after(model_file.content, <<"culture:", WS0>>)
             name_match == rest_after(model_file.content, <<"model", WS1>>)
             info == [culture |-> IF culture_match = {} THEN b.model_info.culture
                                  ELSE {Strip(CHOOSE x \in culture_match : TRUE)},
                      name |-> IF name_match = {} THEN b.model_info.name
                               ELSE {StripChar(StripChar(Strip(CHOOSE x \in name_match : TRUE),
                                                         "'"), "\"")}]
         IN  [b EXCEPT !.model_info = info]

\* DocBuilder(pbip_folder): model_info = {} has neither key
NewBuilder ==
    [tables |-> <<>>, measures |-> <<>>, relationships |-> <<>>,
     model_info |-> [culture |-> {}, name |-> {}], result |-> "not built"]

\* DocBuilder.build(): None without a semantic model folder or its
\* definition folder
build(b, dir) ==
    IF ~dir.semantic_model \/ ~dir.definition THEN [b EXCEPT !.result = "None"]
    ELSE LET b1 == parse_model_tmdl(b, dir.model)
             b2 == parse_relationships(b1, dir.relationships)
             b3 == IF dir.tables_exists THEN parse_tables(b2, dir.tables, 1) ELSE b2
         IN  [identify_table_types(b3) EXCEPT !.result = "True"]

\* no project folder
IdleDocDir ==
    [semantic_model |-> FALSE, definition |-> FALSE,
     model |-> [exists |-> FALSE, content |-> <<>>],
     relationships |-> [exists |-> FALSE, content |-> <<>>, final_newline |-> FALSE],
     tables_exists |-> FALSE, tables |-> <<>>]

(***************************************************************************)
(* check_governance.log_to_csv: the audit log.  The file is a sequence of  *)
(* rows, a row the sequence of its fields.                                 *)
(***************************************************************************)
fieldnames ==
    <<"timestamp", "developer", "report_name", "model_path",
      "auto_datetime_status", "bidirectional_count", "missing_descriptions_count",
      "missing_descriptions_list", "overall_status", "failure_count", "score">>

\* csv.DictWriter.writerow(log_data): the values in the order of fieldnames
dict_row(log_data) == [k \in 1..Len(fieldnames) |-> log_data[fieldnames[k]]]

\* the log_data dictionary check_governance builds for one model
log_data_of(project_name, ti, bidi, missing) ==
    [ timestamp |-> "2026-01-01 00:00:00", developer |-> "dev",
      report_name |-> project_name,
      model_path |-> project_name \o ".SemanticModel/definition/model.tmdl",
      auto_datetime_status |-> IF ~ti THEN "PASS" ELSE "FAIL",
      bidirectional_count |-> bidi,
      missing_descriptions_count |-> Len(missing),
      missing_descriptions_list |-> JoinNames(SubSeq(missing, 1, MinOf({5, Len(missing)}, 0)), "; "),
      overall_status |-> IF model_failures(ti, bidi, missing) = 0 THEN "PASS" ELSE "FAIL",
      failure_count |-> model_failures(ti, bidi, missing),
      score |-> model_score(ti, bidi, missing) ]

NoLogFile == [exists |-> FALSE, rows |-> <<>>]

(***************************************************************************)
(* validators.py: the checks over the model.bim JSON.  A JSON object is a  *)
(* function from its keys; a value that need not be text is a record of    *)
(* its kind and its text.  The outcome of a check is the list it returns,  *)
(* or the exception it raises (raised is then the exception's name).       *)
(***************************************************************************)
\* dict.get(key, default)
get(dict, key, default) == IF key \in DOMAIN dict THEN dict[key] ELSE default

Text(s) == [kind |-> "str", text |-> s]
JsonNull == [kind |-> "null", text |-> ""]

Returned(issues) == [raised |-> "", issues |-> issues]
Raised(exception) == [raised |-> exception, issues |-> <<>>]

\* what the rest of a loop makes of the issues gathered so far
Then(issues, rest) ==
    IF rest.raised # "" THEN rest ELSE Returned(issues \o rest.issues)

Issue(check, object, status, severity) ==
    [Check |-> check, Object |-> object, Status |-> status, Severity |-> severity]

RECURSIVE relationship_loop(_, _)
relationship_loop(relationships, k) ==
    IF k > Len(relationships) THEN Returned(<<>>)
    ELSE LET rel == relationships[k] IN
         IF get(rel, "crossFilteringBehavior", "") = "Both"
         THEN IF ~({"fromTable", "toTable"} \subseteq DOMAIN rel)
              THEN Raised("KeyError")
              ELSE Then(<<Issue("Bi-Directional Risk",
                                rel["fromTable"] \o " -> " \o rel["toTable"],
                                "Failed", "High")>>,
                        relationship_loop(relationships, k + 1))
         ELSE relationship_loop(relationships, k + 1)

bim_check_relationships(model_json) ==
    relationship_loop(get(get(model_json, "model", <<>>), "relationships", <<>>), 1)

RECURSIVE bim_measure_loop(_, _, _)
bim_measure_loop(table, measures, k) ==
    IF k > Len(measures) THEN Returned(<<>>)
    ELSE LET measure == measures[k]
             description == get(measure, "description", Text(""))
         IN  IF description.kind # "str" THEN Raised("AttributeError")
             ELSE IF Strip(description.text) = ""
             THEN IF "name" \notin DOMAIN table THEN Raised("KeyError")
                  ELSE Then(<<Issue("Documentation Gap",
                                    table["name"] \o "[" \o get(measure, "name", "None") \o "]",
                                    "Warning", "Medium")>>,
                            bim_measure_loop(table, measures, k + 1))
             ELSE bim_measure_loop(table, measures, k + 1)

RECURSIVE table_loop(_, _)
table_loop(tables, k) ==
    IF k > Len(tables) THEN Returned(<<>>)
    ELSE LET found == bim_measure_loop(tables[k], get(tables[k], "measures", <<>>), 1) IN
         IF found.raised # "" THEN found
         ELSE Then(found.issues, table_loop(tables, k + 1))

bim_check_measure_descriptions(model_json) ==
    table_loop(get(get(model_json, "model", <<>>), "tables", <<>>), 1)

check_theme_compliance(model_json) ==
    Returned(<<Issue("Theme Validity", "Report Theme", "Info", "Low")>>)

\* run_anti_gravity, step 2: the three checks in turn
run_checks(model_json) ==
    LET first == bim_check_relationships(model_json) IN
    IF first.raised # "" THEN first
    ELSE Then(first.issues,
              LET second == bim_check_measure_descriptions(model_json) IN
              IF second.raised # "" THEN second
              ELSE Then(second.issues, check_theme_compliance(model_json)))

NoModelJson == [model |-> [relationships |-> <<>>, tables |-> <<>>]]

(***************************************************************************)
(* car_wash.py: fix_auto_datetime on a model.tmdl, a file                  *)
(* [exists, readable, content] as check_governance reads it.               *)
(***************************************************************************)
\* str.replace(old, new): every occurrence, left to right
RECURSIVE Replace(_, _, _)
Replace(s, old, new) ==
    IF Len(s) < Len(old) THEN s
    ELSE IF SubSeq(s, 1, Len(old)) = old
    THEN new \o Replace(From(s, Len(old) + 1), old, new)
    ELSE CharAt(s, 1) \o Replace(From(s, 2), old, new)

\* 'text' in content
InContent(content, sub) == \E k \in 1..Len(content) : Contains(content[k], sub)

ReplaceAll(content, old, new) ==
    [k \in 1..Len(content) |-> Replace(content[k], old, new)]

\* lines 37-68: [model, fixes_applied], the file as it is left and the list
\* returned; a file that is absent or cannot be read is left alone
fix_auto_datetime(model) ==
    IF ~model.exists \/ ~model.readable THEN [model |-> model, fixes_applied |-> <<>>]
    ELSE LET has_true == InContent(model.content, "autoDateTime: true")
             c1 == IF has_true
                   THEN ReplaceAll(model.content, "autoDateTime: true", "autoDateTime: false")
                   ELSE model.content
             has_one == InContent(c1, "__PBI_TimeIntelligenceEnabled = 1")
             c2 == IF has_one
                   THEN ReplaceAll(c1, "__PBI_TimeIntelligenceEnabled = 1",
                                       "__PBI_TimeIntelligenceEnabled = 0")
                   ELSE c1
         IN  [model |-> [model EXCEPT !.content = c2],
              fixes_applied |->
                 (IF has_true
                  THEN <<"Disabled Auto Date/Time (autoDateTime: true -> false)">> ELSE <<>>)
                 \o (IF has_one
                     THEN <<"Disabled Time Intelligence (__PBI_TimeIntelligenceEnabled: 1 -> 0)">>
                     ELSE <<>>)]

NoModelTmdl == [exists |-> FALSE, readable |-> FALSE, content |-> <<>>]

(***************************************************************************)
(* batch_runner.py.  A project on disk is [name, dir, theme, safety_copy]: *)
(* its model folder as check_governance walks it, whether the corporate    *)
(* theme is in its report, and whether a copy of it with the suffix        *)
(* _Standardized exists.  Every step of batch_process is a subprocess; the *)
(* launch of one either works ("ok") or raises ("raises").                 *)
(***************************************************************************)
\* which of the texts run_governance_check looks for are in the output of
\* check_governance for the project: '[PASS]' and 'PASSED' hold PASS,
\* '[FAIL]' holds FAIL, the closing line holds ISSUES FOUND
governance_markers(r) ==
    (IF \/ ~r.time_intel_enabled
        \/ r.bidirectional_count = 0
        \/ r.missing_desc_list = <<>> THEN {"PASS"} ELSE {})
    \cup (IF r.time_intel_enabled \/ r.bidirectional_count > 0 THEN {"FAIL"} ELSE {})
    \cup (IF r.model_failures > 0 THEN {"ISSUES FOUND"} ELSE {})

governance_output(dir) ==
    IF ~dir.model.exists THEN {}     \* No Power BI semantic models found
    ELSE governance_markers(check_model(dir))

\* lines 84-93: the status and score read off the output
governance_status(output) ==
    IF "PASS" \in output /\ "FAIL" \notin output
    THEN [status |-> "PASS", score |-> 100]
    ELSE IF "ISSUES FOUND" \in output \/ "FAIL" \in output
    THEN [status |-> "FAIL", score |-> 50]
    ELSE [status |-> "UNKNOWN", score |-> 0]

\* lines 69-95: [status, score]
run_governance_check(project, launch) ==
    IF launch = "raises" THEN [status |-> "ERROR", score |-> 0]
    ELSE governance_status(governance_output(project.dir))

\* car_wash.run_car_wash on the project: the model.tmdl fixed, the theme
\* injected into the report
washed_project(project) ==
    [project EXCEPT !.dir.model = fix_auto_datetime(@).model,
                    !.theme = @ \/ project.dir.report_exists]

\* the variant that washes every project
wash_always(status) == TRUE

\* line 202: if status != 'PASS'
wash_needed(status) == status # "PASS"

\* lines 173-182
NewResult(project) ==
    [name |-> project.name, pre_status |-> "", pre_score |-> 0,
     post_status |-> "", post_score |-> 0,
     fixes_applied |-> FALSE, docs_generated |-> FALSE]

Call(idx, op, status, score) ==
    [project |-> idx, op |-> op, status |-> status, score |-> score]

\* lines 188-199 and 229-232: the loop's record after the PRE-WASH check c
after_pre_check(b, c) ==
    [b EXCEPT
        !.calls = Append(@, Call(b.idx, "check", c.status, c.score)),
        !.result = IF wash_needed(c.status)
                   THEN [@ EXCEPT !.pre_status = c.status, !.pre_score = c.score]
                   ELSE [@ EXCEPT !.pre_status = c.status, !.pre_score = c.score,
                                  !.post_status = c.status, !.post_score = c.score],
        !.pc = IF wash_needed(c.status) THEN "wash" ELSE "docs"]

\* lines 212-222: the loop's record after the POST-WASH check c
after_post_check(b, c) ==
    [b EXCEPT
        !.calls = Append(@, Call(b.idx, "check", c.status, c.score)),
        !.result.post_status = c.status,
        !.result.post_score = c.score,
        !.pc = "docs"]

IdleBatch == [pc |-> "idle", idx |-> 0, result |-> NewResult([name |-> ""]),
              results |-> <<>>, calls |-> <<>>]

(***************************************************************************)
(* State.  tool is the program that runs.  For bi_governance_check: the    *)
(* folder on disk and the rule configuration, the fields of the validator  *)
(* object, and the number of validate_pbip calls the object has served.    *)
(* For check_governance: the model folder, and the values the loop body    *)
(* leaves behind once it has run.  For has_skip_comment taken alone: the   *)
(* content and check code it is called with, and its return value.  For    *)
(* bi_doc_generator: the project folder and the DocBuilder object.         *)
(***************************************************************************)
VARIABLES tool, folder, config, errors, warnings, score, project_config,
          skipped_checks, all_measures, measure_references, runs,
          model_dir, cg, cg_done, query, answer, doc_dir, builder,
          log_file, writers, model_json, logs, wash, disk, batch

validator_vars == <<errors, warnings, score, project_config,
                    skipped_checks, all_measures, measure_references>>
cg_vars == <<model_dir, cg, cg_done>>

skip_vars == <<query, answer>>

doc_vars == <<doc_dir, builder>>

log_vars == <<log_file, writers>>

\* the state of the programs that came after the document builder
bim_vars == <<model_json, logs>>

batch_vars == <<disk, batch>>

rest_vars == <<log_vars, bim_vars, wash, batch_vars>>

vars == <<tool, folder, config, validator_vars, runs, cg_vars, skip_vars, doc_vars,
          rest_vars>>

\* the validator object, as the record the operators work on
self == [ errors |-> errors, warnings |-> warnings, score |-> score,
          project_config |-> project_config, skipped_checks |-> skipped_checks,
          all_measures |-> all_measures, measure_references |-> measure_references ]

SetSelf(v) ==
    /\ errors' = v.errors
    /\ warnings' = v.warnings
    /\ score' = v.score
    /\ project_config' = v.project_config
    /\ skipped_checks' = v.skipped_checks
    /\ all_measures' = v.all_measures
    /\ measure_references' = v.measure_references

\* validator = BIValidator(config_path), not yet run
FreshValidator ==
    /\ errors = NewValidator.errors
    /\ warnings = NewValidator.warnings
    /\ score = NewValidator.score
    /\ project_config = NewValidator.project_config
    /\ skipped_checks = NewValidator.skipped_checks
    /\ all_measures = NewValidator.all_measures
    /\ measure_references = NewValidator.measure_references
    /\ runs = 0

CgIdle == model_dir = IdleDir /\ cg = IdleResult /\ cg_done = FALSE

SkipIdle == query = [content |-> <<>>, check_code |-> ""] /\ answer = "not called"

DocIdle == doc_dir = IdleDocDir /\ builder = NewBuilder

LogIdle == log_file = NoLogFile /\ writers = <<>>

BimIdle == model_json = NoModelJson /\ logs = [state |-> "not run", outcome |-> Returned(<<>>)]

WashIdle == wash = [model |-> NoModelTmdl, fixes_applied |-> <<>>, runs |-> 0]

BatchIdle == disk = <<>> /\ batch = IdleBatch

RestIdle == LogIdle /\ BimIdle /\ WashIdle /\ BatchIdle

\* bi_governance_check.main() started on one of the setups
InitValidator(setups) ==
    /\ tool = "bi_governance_check"
    /\ \E s \in setups : folder = s.folder /\ config = s.config
    /\ FreshValidator
    /\ CgIdle
    /\ SkipIdle
    /\ DocIdle
    /\ RestIdle

\* check_governance() about to handle one model folder
InitCheckGovernance ==
    /\ tool = "check_governance"
    /\ model_dir \in CgDirs
    /\ cg = IdleResult
    /\ cg_done = FALSE
    /\ folder = EmptyFolder /\ config = AllRulesOn
    /\ FreshValidator
    /\ SkipIdle
    /\ DocIdle
    /\ RestIdle

Init == InitValidator(AllSetups \cup BulkSetups \cup DirectiveSetups) \/ InitCheckGovernance

\* main(): validator.validate_pbip(args.pbip_folder)
ValidatePbip ==
    /\ tool = "bi_governance_check"
    /\ runs = 0
    /\ \E seed \in HashSeeds : SetSelf(validate_pbip(self, config, folder, seed))
    /\ runs' = 1
    /\ UNCHANGED <<tool, folder, config, cg_vars, skip_vars, doc_vars, rest_vars>>

\* check_governance(): the loop body for the model folder
CheckModel ==
    /\ tool = "check_governance"
    /\ ~cg_done
    /\ cg' = check_model(model_dir)
    /\ cg_done' = TRUE
    /\ UNCHANGED <<tool, folder, config, validator_vars, runs, model_dir, skip_vars, doc_vars, rest_vars>>

Next == ValidatePbip \/ CheckModel

Spec == Init /\ [][Next]_vars

(***************************************************************************)
(* One validator object serving several validate_pbip calls.  __init__     *)
(* sets the fields once; validate_pbip does not reset them.                *)
(***************************************************************************)
MaxRuns == 3

\* the folders handed to the calls: an empty one, and one-item folders with
\* an Error finding, a Warning finding, two Warning findings, no finding and
\* a visual with a hardcoded color
ReuseSetups ==
    {EmptySetup}
    \cup {WithItem(EmptySetup, <<"line", 1, l>>) : l \in {1, 6, 8, 10}}
    \cup {WithItem(EmptySetup, <<"visual", 2, 0>>)}

InitReuse == InitValidator(ReuseSetups)

\* a further validator.validate_pbip(pbip_folder) on the same object
ValidateAgain ==
    /\ tool = "bi_governance_check"
    /\ runs >= 1
    /\ runs < MaxRuns
    /\ \E s \in ReuseSetups, seed \in HashSeeds :
          /\ folder' = s.folder
          /\ config' = s.config
          /\ SetSelf(validate_pbip(self, s.config, s.folder, seed))
    /\ runs' = runs + 1
    /\ UNCHANGED <<tool, cg_vars, skip_vars, doc_vars, rest_vars>>

NextReuse == ValidatePbip \/ ValidateAgain

SpecReuse == InitReuse /\ [][NextReuse]_vars

(***************************************************************************)
(* The scenario model: one bidirectional relationship and three measures   *)
(* without a description, every measure shown by a visual, with no         *)
(* override or with allow_bi_directional_filters.                          *)
(***************************************************************************)
ScenarioFolder(e1, e2, e3, ov) ==
    [files |-> << [name |-> "relationships.tmdl", content |-> RelationshipLines,
                   readable |-> TRUE],
                  [name |-> "Sales.tmdl",
                   content |-> << "table Sales", measure_line(1, e1),
                                  measure_line(2, e2), measure_line(3, e3) >>,
                   readable |-> TRUE] >>,
     visuals |-> <<ScenarioVisual>>,
     overrides |-> ov]

ScenarioSetups ==
    {[folder |-> ScenarioFolder(e1, e2, e3, ov), config |-> AllRulesOn] :
        e1 \in 1..Len(ScenarioExprs), e2 \in 1..Len(ScenarioExprs),
        e3 \in 1..Len(ScenarioExprs), ov \in {{}, {"bi_directional_filters"}}}

InitScenario == InitValidator(ScenarioSetups)

NextScenario == ValidatePbip

SpecScenario == InitScenario /\ [][NextScenario]_vars

(***************************************************************************)
(* has_skip_comment taken alone, on a content of at most MaxDirectives of  *)
(* the lines of SkipLines.                                                 *)
(***************************************************************************)
MaxDirectives == 2

\* the increasing sequences of at most n indexes out of 1..m
RECURSIVE IncSeqs(_, _)
IncSeqs(m, n) ==
    IF n = 0 THEN {<<>>}
    ELSE IncSeqs(m, n - 1)
         \cup {Append(x[1], x[2]) :
                 x \in {y \in IncSeqs(m, n - 1) \X (1..m) :
                          y[1] = <<>> \/ y[1][Len(y[1])] < y[2]}}

SkipContents ==
    {[k \in 1..Len(q) |-> SkipLines[q[k]]] : q \in IncSeqs(Len(SkipLines), MaxDirectives)}

InitSkip ==
    /\ tool = "has_skip_comment"
    /\ \E c \in SkipContents, code \in QueryCodes :
          query = [content |-> c, check_code |-> code]
    /\ answer = "not called"
    /\ folder = EmptyFolder /\ config = AllRulesOn
    /\ FreshValidator
    /\ CgIdle
    /\ DocIdle
    /\ RestIdle

\* validator.has_skip_comment(content, check_code)
HasSkipComment ==
    /\ tool = "has_skip_comment"
    /\ answer = "not called"
    /\ \E seed \in HashSeeds :
          SetSelf(after_has_skip_comment(self, query.content, query.check_code, seed))
    /\ answer' = IF has_skip_comment(query.content, query.check_code)
                 THEN "True" ELSE "False"
    /\ UNCHANGED <<tool, folder, config, runs, cg_vars, query, doc_vars, rest_vars>>

NextSkip == HasSkipComment

SpecSkip == InitSkip /\ [][NextSkip]_vars

(***************************************************************************)
(* bi_doc_generator.main() on one project folder.  The folders are of two  *)
(* families: a relationships.tmdl of at most MaxRels relationships beside  *)
(* at most MaxTables table files that hold the table line only, and one    *)
(* table file of at most MaxDocLines lines after the table line.           *)
(***************************************************************************)
MaxRels == 2
MaxTables == 3
MaxDocLines == 3

\* the relationships of relationships.tmdl: the two notations of a column
\* reference, quoted names, an identifier that is not a GUID, a
\* bidirectional inactive relationship, and a relationship out of Date
RelationshipBlocks ==
    << << "relationship 5d8b-01",
          "\tfromColumn: Sales.DateKey", "\ttoColumn: Date.DateKey" >>,
       << "relationship 5d8b-02",
          "\tfromColumn: Sales[DateKey]", "\ttoColumn: Date[DateKey]" >>,
       << "relationship 5d8b-03",
          "\tfromColumn: 'Net Sales'.'Date Key'", "\ttoColumn: Date.DateKey" >>,
       << "relationship r1",
          "\tfromColumn: Sales.ProductKey", "\ttoColumn: Product.ProductKey" >>,
       << "relationship 5d8b-05",
          "\tisActive: false", "\tcrossFilteringBehavior: bothDirections",
          "\tfromColumn: Sales.ProductKey", "\ttoColumn: Product.ProductKey" >>,
       << "relationship 5d8b-06", "",
          "\tfromColumn: Date.MonthKey", "\ttoColumn: Product.MonthKey" >> >>

\* the blocks of a sequence of indexes, a blank line between two
RECURSIVE RelationshipText(_)
RelationshipText(q) ==
    IF q = <<>> THEN <<>>
    ELSE IF Len(q) = 1 THEN RelationshipBlocks[q[1]]
    ELSE RelationshipBlocks[q[1]] \o <<"">> \o RelationshipText(Tail(q))

RelationshipFiles ==
    { [exists |-> FALSE, content |-> <<>>, final_newline |-> FALSE] }
    \cup { [exists |-> TRUE, content |-> RelationshipText(q), final_newline |-> n] :
             q \in SeqsUpTo([k \in 1..Len(RelationshipBlocks) |-> k], MaxRels),
             n \in BOOLEAN }

TableOnlyFiles ==
    << [name |-> "Sales.tmdl", content |-> <<"table Sales">>],
       [name |-> "Date.tmdl", content |-> <<"table Date">>],
       [name |-> "Product.tmdl", content |-> <<"table Product">>],
       [name |-> "Net Sales.tmdl", content |-> <<"table 'Net Sales'">>],
       [name |-> "LocalDateTable_5d8b.tmdl", content |-> <<"table LocalDateTable_5d8b">>] >>

TableSets ==
    {[k \in 1..Len(q) |-> TableOnlyFiles[q[k]]] : q \in IncSeqs(Len(TableOnlyFiles), MaxTables)}

\* the lines of a table file after its first
DocTableLines ==
    << "\tcolumn Amount",
       "\tcolumn 'Order Date'",
       "\t\tdataType: int64",
       "\tmeasure X1 = 1",
       "\tmeasure 'Net Sales' =",
       "\t\t\tSUM(Sales[Amount])",
       "\t\tlineageTag: ab12",
       "\t\tdescription: total",
       "\tpartition Sales = m",
       "\tisHidden",
       "" >>

DocModelFiles ==
    { [exists |-> FALSE, content |-> <<>>],
      [exists |-> TRUE, content |-> <<"model Model", "\tculture: en-US">>],
      [exists |-> TRUE, content |-> <<"model 'Sales Model'">>] }

DocDir(m, r, t) ==
    [semantic_model |-> TRUE, definition |-> TRUE, model |-> m, relationships |-> r,
     tables_exists |-> TRUE, tables |-> t]

OneRelationship ==
    [exists |-> TRUE, content |-> RelationshipBlocks[1], final_newline |-> TRUE]

NoModelFile == [exists |-> FALSE, content |-> <<>>]

InitDoc ==
    /\ tool = "bi_doc_generator"
    /\ \/ \E r \in RelationshipFiles, t \in TableSets :
             doc_dir = DocDir(NoModelFile, r, t)
       \/ \E first \in {"table Sales", "/// Sales"},
             c \in SeqsUpTo(DocTableLines, MaxDocLines) :
             doc_dir = DocDir(NoModelFile, OneRelationship,
                              << [name |-> "Sales.tmdl", content |-> <<first>> \o c] >>)
       \/ \E m \in DocModelFiles :
             doc_dir = DocDir(m, OneRelationship, <<TableOnlyFiles[1]>>)
       \/ \E sm \in BOOLEAN, d \in BOOLEAN, te \in BOOLEAN :
             doc_dir = [DocDir(NoModelFile, OneRelationship, <<>>)
                          EXCEPT !.semantic_model = sm, !.definition = d,
                                 !.tables_exists = te]
    /\ builder = NewBuilder
    /\ folder = EmptyFolder /\ config = AllRulesOn
    /\ FreshValidator
    /\ CgIdle
    /\ SkipIdle
    /\ RestIdle

\* main(): builder = DocBuilder(args.pbip_folder); builder.build()
Build ==
    /\ tool = "bi_doc_generator"
    /\ builder.result = "not built"
    /\ builder' = build(builder, doc_dir)
    /\ UNCHANGED <<tool, folder, config, validator_vars, runs, cg_vars, skip_vars, doc_dir, rest_vars>>

NextDoc == Build

SpecDoc == InitDoc /\ [][NextDoc]_vars

(***************************************************************************)
(* The audit log under concurrent writers.  Each writer is one call of     *)
(* log_to_csv in a process of its own; the steps of the call are the       *)
(* statements of its body, and neither implementation takes a lock.  What  *)
(* the csv writer writes goes to the buffer of the file object and reaches *)
(* the file when the buffer is handed over: at the latest when the with    *)
(* block closes the file, earlier when the buffer fills.                   *)
(***************************************************************************)
MaxWriters == 2

Writers == 1..MaxWriters

\* the rows the writers log: model folders of different outcomes
LogRows ==
    { dict_row(log_data_of("A", FALSE, 0, <<>>)),
      dict_row(log_data_of("B", TRUE, 1, <<>>)),
      dict_row(log_data_of("C", FALSE, 0, <<"Sales.tmdl: Total">>)) }

\* a row an earlier, completed run left in the log
PriorRow == dict_row(log_data_of("Old", TRUE, 0, <<>>))

LogFiles ==
    { NoLogFile,
      [exists |-> TRUE, rows |-> <<fieldnames>>],
      [exists |-> TRUE, rows |-> <<fieldnames, PriorRow>>] }

NewWriter(row) == [pc |-> "isfile", file_exists |-> FALSE, buffer |-> <<>>, row |-> row]

InitLog ==
    /\ tool = "log_to_csv"
    /\ log_file \in LogFiles
    /\ writers \in [Writers -> {NewWriter(r) : r \in LogRows}]
    /\ folder = EmptyFolder /\ config = AllRulesOn
    /\ FreshValidator
    /\ CgIdle
    /\ SkipIdle
    /\ DocIdle
    /\ BimIdle
    /\ WashIdle
    /\ BatchIdle

\* file_exists = os.path.isfile(log_file)
IsFile(w) ==
    /\ writers[w].pc = "isfile"
    /\ writers' = [writers EXCEPT ![w].file_exists = log_file.exists, ![w].pc = "open"]
    /\ UNCHANGED log_file

\* open(log_file, 'a', ...): append mode creates the file when it is absent
OpenAppend(w) ==
    /\ writers[w].pc = "open"
    /\ log_file' = [log_file EXCEPT !.exists = TRUE]
    /\ writers' = [writers EXCEPT ![w].pc = "header"]

\* if not file_exists: writer.writeheader()
WriteHeader(w) ==
    /\ writers[w].pc = "header"
    /\ writers' = [writers EXCEPT
          ![w].buffer = IF writers[w].file_exists THEN @ ELSE Append(@, fieldnames),
          ![w].pc = "row"]
    /\ UNCHANGED log_file

\* writer.writerow(log_data)
WriteRow(w) ==
    /\ writers[w].pc = "row"
    /\ writers' = [writers EXCEPT ![w].buffer = Append(@, writers[w].row),
                                  ![w].pc = "close"]
    /\ UNCHANGED log_file

\* the buffer fills before the file is closed and is appended to the file
FlushBuffer(w) ==
    /\ writers[w].pc \in {"row", "close"}
    /\ writers[w].buffer # <<>>
    /\ log_file' = [log_file EXCEPT !.rows = @ \o writers[w].buffer]
    /\ writers' = [writers EXCEPT ![w].buffer = <<>>]

\* the end of the with block: what is buffered is appended, the file closed
CloseFile(w) ==
    /\ writers[w].pc = "close"
    /\ log_file' = [log_file EXCEPT !.rows = @ \o writers[w].buffer]
    /\ writers' = [writers EXCEPT ![w].buffer = <<>>, ![w].pc = "done"]

LogFrame ==
    UNCHANGED <<tool, folder, config, validator_vars, runs, cg_vars, skip_vars, doc_vars,
                bim_vars, wash, batch_vars>>

NextLog ==
    \/ \E w \in Writers : IsFile(w) /\ LogFrame
    \/ \E w \in Writers : OpenAppend(w) /\ LogFrame
    \/ \E w \in Writers : WriteHeader(w) /\ LogFrame
    \/ \E w \in Writers : WriteRow(w) /\ LogFrame
    \/ \E w \in Writers : FlushBuffer(w) /\ LogFrame
    \/ \E w \in Writers : CloseFile(w) /\ LogFrame

SpecLog == InitLog /\ [][NextLog]_vars

(***************************************************************************)
(* validators.py run on a model.bim: the relationships and the tables of   *)
(* the JSON are what a tool or a hand edit left there, so a key may be     *)
(* absent and a description may be null.                                   *)
(***************************************************************************)
MaxBimItems == 2

BimRelationships ==
    <<[crossFilteringBehavior |-> "Both", fromTable |-> "Sales", toTable |-> "Date"],
      [crossFilteringBehavior |-> "Single", fromTable |-> "Sales", toTable |-> "Product"],
      [crossFilteringBehavior |-> "Both", fromTable |-> "Sales"],
      [crossFilteringBehavior |-> "Both", toTable |-> "Date"],
      [crossFilteringBehavior |-> "Both", name |-> "r1"],
      [fromTable |-> "Sales", toTable |-> "Date"] >>

BimMeasures ==
    <<[name |-> "Total", expression |-> "1", description |-> Text("Sum of sales")],
      [name |-> "Margin", expression |-> "1", description |-> Text("  ")],
      [name |-> "Count", expression |-> "1"],
      [name |-> "Ratio", expression |-> "1", description |-> JsonNull],
      [expression |-> "1"],
      [expression |-> "1", description |-> Text("Unnamed")] >>

InitBim ==
    /\ tool = "validators"
    /\ \/ \E r \in SeqsUpTo(BimRelationships, MaxBimItems) :
             model_json = [model |-> [relationships |-> r, tables |-> <<>>]]
       \/ \E m \in SeqsUpTo(BimMeasures, MaxBimItems), named \in BOOLEAN :
             model_json = [model |-> [tables |->
                 << IF named THEN [name |-> "Sales", measures |-> m]
                    ELSE [measures |-> m],
                    [name |-> "Date", measures |-> <<[name |-> "Days", expression |-> "1"]>>] >>]]
       \/ \E r \in Range(BimRelationships), m \in Range(BimMeasures) :
             model_json = [model |-> [relationships |-> <<r>>,
                                     tables |-> <<[name |-> "Sales", measures |-> <<m>>]>>]]
    /\ logs = [state |-> "not run", outcome |-> Returned(<<>>)]
    /\ folder = EmptyFolder /\ config = AllRulesOn
    /\ FreshValidator
    /\ CgIdle
    /\ SkipIdle
    /\ DocIdle
    /\ LogIdle
    /\ WashIdle
    /\ BatchIdle

\* run_anti_gravity(): logs.extend(...) of the three checks
RunAntiGravity ==
    /\ tool = "validators"
    /\ logs.state = "not run"
    /\ logs' = [state |-> "run", outcome |-> run_checks(model_json)]
    /\ UNCHANGED <<tool, folder, config, validator_vars, runs, cg_vars, skip_vars, doc_vars,
                   log_vars, model_json, wash, batch_vars>>

NextBim == RunAntiGravity

SpecBim == InitBim /\ [][NextBim]_vars

(***************************************************************************)
(* car_wash run on a project, then run once more: step 1 of run_car_wash,  *)
(* fix_auto_datetime on the project's model.tmdl.                          *)
(***************************************************************************)
MaxWashLines == 2

MaxWashRuns == 2

WashLines ==
    << "model Model", "\tautoDateTime: true", "\tautoDateTime: false",
       "annotation __PBI_TimeIntelligenceEnabled = 1",
       "annotation __PBI_TimeIntelligenceEnabled = 0", "\tautoDateTime: True" >>

InitWash ==
    /\ tool = "car_wash"
    /\ \/ \E c \in SeqsUpTo(WashLines, MaxWashLines) :
             wash = [model |-> [exists |-> TRUE, readable |-> TRUE, content |-> c],
                     fixes_applied |-> <<>>, runs |-> 0]
       \/ \E e \in BOOLEAN :
             wash = [model |-> [exists |-> e, readable |-> FALSE, content |-> <<>>],
                     fixes_applied |-> <<>>, runs |-> 0]
    /\ folder = EmptyFolder /\ config = AllRulesOn
    /\ FreshValidator
    /\ CgIdle
    /\ SkipIdle
    /\ DocIdle
    /\ LogIdle
    /\ BimIdle
    /\ BatchIdle

\* run_car_wash: fixes = fix_auto_datetime(model_tmdl_path)
FixAutoDatetime ==
    /\ tool = "car_wash"
    /\ wash.runs < MaxWashRuns
    /\ LET fixed == fix_auto_datetime(wash.model) IN
           wash' = [model |-> fixed.model, fixes_applied |-> fixed.fixes_applied,
                    runs |-> wash.runs + 1]
    /\ UNCHANGED <<tool, folder, config, validator_vars, runs, cg_vars, skip_vars, doc_vars,
                   log_vars, bim_vars, batch_vars>>

NextWash == FixAutoDatetime

SpecWash == InitWash /\ [][NextWash]_vars

(***************************************************************************)
(* batch_process over the projects find_pbip_projects returned, one step   *)
(* of the loop body at a time.  batch holds the position in the loop, the  *)
(* result record of the project at hand, the results list, and the         *)
(* subprocesses launched so far with what the checks returned.             *)
(***************************************************************************)
MaxProjects == 2

Launches == {"ok", "raises"}

BatchModels ==
    { NoModelTmdl,
      [exists |-> TRUE, readable |-> TRUE, content |-> <<"model Model">>],
      [exists |-> TRUE, readable |-> TRUE, content |-> <<"model Model", "\tautoDateTime: true">>],
      [exists |-> TRUE, readable |-> TRUE, content |-> <<"model Model", "\tautoDateTime: false">>] }

BatchRelationships ==
    { [exists |-> FALSE, readable |-> FALSE, content |-> <<>>],
      [exists |-> TRUE, readable |-> TRUE,
       content |-> <<"\tcrossFilteringBehavior: bothDirections">>] }

BatchTables ==
    { <<>>, <<[name |-> "Sales.tmdl", content |-> <<CgTableLines[1]>>, readable |-> TRUE]>> }

ProjectNames == <<"Sales", "Stock", "Staff">>

InitBatch ==
    /\ tool = "batch_runner"
    /\ \E n \in 1..MaxProjects :
          \E m \in [1..n -> BatchModels], r \in BatchRelationships, t \in BatchTables :
             disk = [k \in 1..n |->
                        [name |-> ProjectNames[k],
                         dir |-> [model |-> m[k], relationships |-> r, tables |-> t,
                                  semantic_model |-> TRUE, report_exists |-> TRUE],
                         theme |-> FALSE,
                         safety_copy |-> FALSE]]
    /\ batch = [IdleBatch EXCEPT !.pc = "pre", !.idx = 1,
                                 !.result = NewResult([name |-> ProjectNames[1]])]
    /\ folder = EmptyFolder /\ config = AllRulesOn
    /\ FreshValidator
    /\ CgIdle
    /\ SkipIdle
    /\ DocIdle
    /\ LogIdle
    /\ BimIdle
    /\ WashIdle

BatchFrame ==
    UNCHANGED <<tool, folder, config, validator_vars, runs, cg_vars, skip_vars, doc_vars,
                log_vars, bim_vars, wash>>

\* Step 1: PRE-WASH governance check (lines 188-199, and 229-232 when the
\* project passes)
PreWashCheck ==
    /\ tool = "batch_runner"
    /\ batch.pc = "pre"
    /\ \E launch \in Launches :
          batch' = after_pre_check(batch, run_governance_check(disk[batch.idx], launch))
    /\ UNCHANGED disk
    /\ BatchFrame

\* Step 2: run_car_wash(project_path) (lines 203-210)
CarWash ==
    /\ tool = "batch_runner"
    /\ batch.pc = "wash"
    /\ \E launch \in Launches :
          /\ disk' = IF launch = "ok"
                     THEN [disk EXCEPT ![batch.idx] = washed_project(@)]
                     ELSE disk
          /\ batch' = [batch EXCEPT
                  !.calls = Append(@, Call(batch.idx, "wash", "", 0)),
                  !.result.fixes_applied = (launch = "ok"),
                  !.pc = "post"]
    /\ BatchFrame

\* Step 3: POST-WASH governance check (lines 212-222)
PostWashCheck ==
    /\ tool = "batch_runner"
    /\ batch.pc = "post"
    /\ \E launch \in Launches :
          batch' = after_post_check(batch, run_governance_check(disk[batch.idx], launch))
    /\ UNCHANGED disk
    /\ BatchFrame

\* Step 4: generate_docs(project_path) when the post score is 100 (lines 234-243)
GenerateDocs ==
    /\ tool = "batch_runner"
    /\ batch.pc = "docs"
    /\ batch.result.post_score = 100
    /\ \E success \in BOOLEAN :
          batch' = [batch EXCEPT
              !.calls = Append(@, Call(batch.idx, "docs", "", 0)),
              !.result.docs_generated = success,
              !.pc = "append"]
    /\ UNCHANGED disk
    /\ BatchFrame

\* results.append(result) and the next round of the loop (line 245)
AppendResult ==
    /\ tool = "batch_runner"
    /\ \/ batch.pc = "append"
       \/ batch.pc = "docs" /\ batch.result.post_score # 100
    /\ batch' = [batch EXCEPT
          !.results = Append(@, batch.result),
          !.idx = @ + 1,
          !.result = IF batch.idx < Len(disk)
                     THEN NewResult(disk[batch.idx + 1]) ELSE batch.result,
          !.pc = IF batch.idx < Len(disk) THEN "pre" ELSE "done"]
    /\ UNCHANGED disk
    /\ BatchFrame

NextBatch == PreWashCheck \/ CarWash \/ PostWashCheck \/ GenerateDocs \/ AppendResult

SpecBatch == InitBatch /\ [][NextBatch]_vars

(***************************************************************************)
(* check_governance on a model folder whose table file is any sequence of  *)
(* at most MaxScanLines of these lines: declarations with and without      *)
(* quotes, a declaration without a name, /// comments, description         *)
(* properties, the words that end a measure, an empty line.                *)
(***************************************************************************)
MaxScanLines == 3

ScanLines ==
    CgTableLines \o << "\tmeasure  = 1", "\tmeasure ", "\thierarchy H" >>

InitScan ==
    /\ tool = "check_governance"
    /\ \E c \in SeqsUpTo(ScanLines, MaxScanLines), re \in BOOLEAN :
          model_dir = [model |-> [exists |-> TRUE, readable |-> TRUE,
                                  content |-> <<"model Model", "\tautoDateTime: false">>],
                       relationships |-> [exists |-> FALSE, readable |-> FALSE,
                                          content |-> <<>>],
                       tables |-> <<[name |-> "Sales.tmdl", content |-> c,
                                     readable |-> TRUE]>>,
                       semantic_model |-> TRUE, report_exists |-> re]
    /\ cg = IdleResult
    /\ cg_done = FALSE
    /\ folder = EmptyFolder /\ config = AllRulesOn
    /\ FreshValidator
    /\ SkipIdle
    /\ DocIdle
    /\ RestIdle

NextScan == CheckModel

SpecScan == InitScan /\ [][NextScan]_vars

(***************************************************************************)
(* Properties.                                                             *)
(***************************************************************************)
Validated == tool = "bi_governance_check" /\ runs = 1

\* the score a fresh validator gives a folder
ScoreOf(cfg, f) == validate_pbip(NewValidator, cfg, f, 0).score

\* the folder with one more project-level override
WithOverride(f, c) == [f EXCEPT !.overrides = @ \cup {c}]

\* the SKIP_CHECK lines added to a file
DirectiveLines == {TmdlLines[4], TmdlLines[5], SkipLines[11]}

\* the rule a recorded error belongs to
ErrorRule(e) ==
    IF e.code \in {"MODEL_AUTO_DATE_TIME_PROPERTY", "MODEL_AUTO_DATE_TIME_LEGACY",
                   "MODEL_AUTO_DATE_TIME_HIDDEN_TABLES"} THEN "auto_date_time"
    ELSE IF e.code = "MODEL_BI_DI_FILTER" THEN "bi_directional_filters"
    ELSE IF e.code = "MODEL_MANY_TO_MANY" THEN "many_to_many"
    ELSE IF e.code = "MODEL_DATE_TABLE_MODE" THEN "date_table_mode"
    ELSE IF e.code = "VISUAL_HARDCODED_COLOR" THEN "hardcoded_colors"
    ELSE "other"

\* the rule a recorded warning belongs to
WarningRule(w) ==
    IF w.type = "Naming" THEN "naming_convention"
    ELSE IF w.type = "Documentation" THEN "measure_description"
    ELSE IF w.type = "Efficiency" THEN "unused_measures"
    ELSE "other"

\* the rules with a finding in the validator's lists
RulesCounted ==
    {ErrorRule(errors[k]) : k \in 1..Len(errors)}
    \cup {WarningRule(warnings[k]) : k \in 1..Len(warnings)}

\* two codes of one alias group (the canonical code or any of its aliases)
SameGroup(c1, c2) ==
    \E m \in MainCodes : {c1, c2} \subseteq ({m} \cup Range(code_aliases[m]))

\* C1: after a run of validate_pbip, and after the scoring of a model folder
\* by check_governance, the score is an integer from 0 to 100, whatever the
\* numbers of errors and warnings.
C1_ScoreInRange ==
    /\ (tool = "bi_governance_check" /\ runs >= 1) => score \in 0..100
    /\ cg_done => cg.score \in 0..100

\* C1 witness: a run whose deductions exceed 100 and whose score is 0
C1_ScoreClamped ==
    /\ Validated
    /\ Len(errors) * 10 + Len(warnings) * 2 > 100
    /\ score = 0

\* C2: the score of a run is max(0, 100 - 10*E - 2*W), E and W the numbers of
\* recorded errors and warnings; what was skipped subtracts nothing.
C2_ScoreFormula ==
    Validated => score = Max(0, 100 - 10 * Len(errors) - 2 * Len(warnings))

\* C2 witness: a run with an error, a warning and a skipped check
C2_ScoreWeighted ==
    /\ Validated
    /\ Len(errors) >= 1 /\ Len(warnings) >= 1 /\ Len(skipped_checks) >= 1
    /\ score = 100 - 10 * Len(errors) - 2 * Len(warnings)

\* C3: scoring is idempotent: a further scoring on the same validator that
\* leaves the lists of errors and warnings unchanged leaves the score
\* unchanged.
C3_RescoringIdempotent ==
    [][ ( /\ runs >= 1 /\ runs' = runs + 1
          /\ (folder'.files # <<>> \/ folder'.visuals # <<>>)
          /\ errors' = errors /\ warnings' = warnings )
        => score' = score ]_vars

C5_ScenarioScore84 ==
    (Validated /\ folder.overrides = {}) =>
        Len(errors) = 1 /\ Len(warnings) = 3 /\ score = 84

\* C6: the scenario model with allow_bi_directional_filters: a score of 94.
C6_ScenarioScore94 ==
    (Validated /\ folder.overrides = {"bi_directional_filters"}) => score = 94

\* C7: a bidirectional filter that is suppressed, by the project-level allow
\* or by a SKIP_CHECK line of its file, is still in the validator's list of
\* findings.
C7_SuppressedRetained ==
    Validated =>
        \A k \in 1..Len(folder.files) :
            ( /\ folder.files[k].readable
              /\ config.bi_directional_filters
              /\ SearchContent(folder.files[k].content, BiDiPattern)
              /\ \/ "bi_directional_filters" \in folder.overrides
                 \/ has_skip_comment(folder.files[k].content, "bi_di_filter") )
            => \E j \in 1..Len(errors) :
                  errors[j].code = "MODEL_BI_DI_FILTER"
                  /\ errors[j].file = folder.files[k].name

\* C8: a file that holds the line '// SKIP_CHECK: bidi - approved' has no
\* bidirectional-filter finding counted against the score.
C8_BidiAliasSuppresses ==
    Validated =>
        \A k \in 1..Len(folder.files) :
            (folder.files[k].readable /\ TmdlLines[4] \in Range(folder.files[k].content))
            => \A j \in 1..Len(errors) :
                  ~(errors[j].code = "MODEL_BI_DI_FILTER"
                    /\ errors[j].file = folder.files[k].name)

\* C8 witness: a run over a file with a bidirectional filter and the 'bidi'
\* line, the rule on and not allowed by the project, and a score of 100
C8_BidiLineSkipped ==
    /\ Validated
    /\ config.bi_directional_filters /\ folder.overrides = {}
    /\ \E k \in 1..Len(folder.files) :
          /\ TmdlLines[4] \in Range(folder.files[k].content)
          /\ TmdlLines[1] \in Range(folder.files[k].content)
    /\ skipped_checks # <<>>
    /\ score = 100

\* C9: has_skip_comment gives the same answer for any two codes of one alias
\* group, and a line naming one member of the group answers the question
\* asked under any other member.
C9_AliasSymmetric ==
    answer # "not called" =>
        /\ \A c2 \in AliasCodes :
              SameGroup(query.check_code, c2)
              => (has_skip_comment(query.content, c2) <=> answer = "True")
        /\ \A k \in 1..Len(query.content), i \in 1..Len(DirectiveCodes) :
              (query.content[k] = SkipLines[i] /\ SameGroup(query.check_code, DirectiveCodes[i]))
              => answer = "True"

\* C9 witness: the question asked under the alias 'bidi' of a content whose
\* only line names the alias 'bi_directional', answered True
C9_AliasAnswersAlias ==
    /\ answer = "True"
    /\ query.check_code = "bidi"
    /\ query.content = <<SkipLines[3]>>

\* C10: a rule the project config allows has no finding counted against the
\* score.
C10_AllowedRuleNotCounted ==
    Validated => folder.overrides \cap RulesCounted = {}

\* the errors recorded with this code for the file of this name
HasError(code, name) ==
    \E j \in 1..Len(errors) : errors[j].code = code /\ errors[j].file = name

\* C11: an inline SKIP_CHECK line acts on its own file only: a file with a
\* bidirectional filter (an autoDateTime property) whose rule runs and whose
\* own text holds no matching directive has its finding recorded, whatever
\* directives the other files of the project hold.
C11_DirectiveFileLocal ==
    Validated =>
        \A k \in 1..Len(folder.files) :
            LET f == folder.files[k] IN
            f.readable =>
               /\ ( /\ config.bi_directional_filters
                    /\ "bi_directional_filters" \notin folder.overrides
                    /\ SearchContent(f.content, BiDiPattern)
                    /\ ~has_skip_comment(f.content, "bi_di_filter") )
                  => HasError("MODEL_BI_DI_FILTER", f.name)
               /\ ( /\ config.auto_date_time
                    /\ "auto_date_time" \notin folder.overrides
                    /\ SearchContent(f.content, AutoDateTimePattern)
                    /\ ~has_skip_comment(f.content, "auto_date_time") )
                  => HasError("MODEL_AUTO_DATE_TIME_PROPERTY", f.name)

\* C11 witness: the first file holds the directive, the second file holds the
\* bidirectional filter, and the finding of the second file is recorded
C11_OtherFileStillFlagged ==
    /\ Validated
    /\ Len(folder.files) = 2
    /\ folder.files[1].content = <<TmdlLines[4]>>
    /\ folder.files[2].content = <<TmdlLines[1]>>
    /\ HasError("MODEL_BI_DI_FILTER", folder.files[2].name)
    /\ skipped_checks # <<>>

\* the checks validate_pbip runs on one file (lines 420-439), by name
run_check(v, cfg, file, seed, c) ==
    CASE c = "auto_date_time" -> run_auto_date_time(v, cfg, file, seed)
      [] c = "bi_directional_filters" -> run_bi_directional_filters(v, cfg, file, seed)
      [] c = "many_to_many" -> run_many_to_many(v, cfg, file)
      [] c = "naming_convention" -> check_naming_convention(v, file.content, file.name)
      [] c = "date_table_mode" -> check_date_table_mode(v, file.content, file.name)
      [] c = "measure_description" -> check_measure_descriptions(v, file.content, file.name)

\* the checks of one file, run in the order given (the score stays 100 until
\* it is calculated: the test only has each check finish before the next)
RECURSIVE checks_in_order(_, _, _, _, _)
checks_in_order(v, cfg, file, seed, order) ==
    IF order = <<>> THEN v
    ELSE LET v1 == run_check(v, cfg, file, seed, Head(order)) IN
         IF v1.score = 100 THEN checks_in_order(v1, cfg, file, seed, Tail(order)) ELSE v1

RECURSIVE files_in_order(_, _, _, _, _, _)
files_in_order(v, cfg, files, k, seed, order) ==
    IF k > Len(files) THEN v
    ELSE LET v1 == IF files[k].readable
                   THEN checks_in_order(v, cfg, files[k], seed, order)
                   ELSE process_file(v, cfg, files[k], seed)
         IN  IF v1.score = 100 THEN files_in_order(v1, cfg, files, k + 1, seed, order)
             ELSE v1

\* the rule stages of validate_pbip (lines 414-458), run in the order given:
\* the checks of every file, the colors of the visuals, the unused measures
RECURSIVE stages_in_order(_, _, _, _, _, _)
stages_in_order(v, cfg, fld, seed, stages, order) ==
    IF stages = <<>> THEN v
    ELSE stages_in_order(
             CASE Head(stages) = "files" ->
                      files_in_order(v, cfg, fld.files, 1, seed, order)
               [] Head(stages) = "hardcoded_colors" -> run_hardcoded_colors(v, fld)
               [] Head(stages) = "unused_measures" -> check_unused_measures(v),
             cfg, fld, seed, Tail(stages), order)

\* validate_pbip with its rule checks run in another order; what comes before
\* the checks (lines 364-412) and the scoring stay in place
validate_in_order(v, cfg, fld, seed, stages, order) ==
    IF fld.files = <<>> /\ fld.visuals = <<>>
    THEN check_hidden_tables(load_project_config(v, fld), fld)
    ELSE calculate_score(
             stages_in_order(
                 collect_visuals(
                     collect_tmdl(check_hidden_tables(load_project_config(v, fld), fld),
                                  fld.files, 1),
                     fld.visuals, 1),
                 cfg, fld, seed, stages, order))

\* the order of the code, and the permutations compared with it
CodeStages == <<"files", "hardcoded_colors", "unused_measures">>
CodeOrder ==
    <<"auto_date_time", "bi_directional_filters", "many_to_many",
      "naming_convention", "date_table_mode", "measure_description">>
Reverse(seq) == [k \in 1..Len(seq) |-> seq[Len(seq) + 1 - k]]
StageOrders ==
    {<<a, b, c>> : a \in Range(CodeStages), b \in Range(CodeStages), c \in Range(CodeStages)}
AllStageOrders == {o \in StageOrders : Range(o) = Range(CodeStages)}

\* the set of findings of a validator
Findings(v) == Range(v.errors) \cup Range(v.warnings)

\* C12: the set of errors and warnings of a run is the same for every order
\* of the rule checks, the unused-measure check before the files' checks
\* included.
C12_OrderIndependent ==
    Validated =>
        \A stages \in AllStageOrders, order \in {CodeOrder, Reverse(CodeOrder)} :
            Findings(validate_in_order(NewValidator, config, folder, 0, stages, order))
                = Range(errors) \cup Range(warnings)

\* the measures the readable files of a folder declare (measure <name> =)
DeclaredMeasures(f) ==
    UNION { {line_measure[f.files[k].content[j]].name : j \in 1..Len(f.files[k].content)} :
              k \in {i \in 1..Len(f.files) : f.files[i].readable} } \ {""}

\* [m] occurs in the text validate_pbip scans for references (lines 400-412):
\* the readable TMDL files and the visual files
Referenced(f, m) ==
    \/ \E k \in 1..Len(f.files) :
          /\ f.files[k].readable
          /\ \E j \in 1..Len(f.files[k].content) :
                m \in Range(line_refs[f.files[k].content[j]])
    \/ \E i \in 1..Len(f.visuals) :
          \E j \in 1..Len(f.visuals[i].text) :
              m \in Range(line_refs[f.visuals[i].text[j]])

\* the measure is named by an 'Unused Measures' warning of the validator
FlaggedUnused(v, m) ==
    \E k \in 1..Len(v.warnings) :
        v.warnings[k].rule = "Unused Measures" /\ Contains(v.warnings[k].message, m)

\* C13: a declared measure is flagged as unused exactly when no [M] occurs in
\* the scanned text, and one more line holding [M], anywhere in a file,
\* removes the flag.
C13_UnusedIffUnreferenced ==
    (Validated /\ "unused_measures" \notin folder.overrides) =>
        \A m \in DeclaredMeasures(folder) :
            /\ FlaggedUnused(self, m) <=> ~Referenced(folder, m)
            /\ FlaggedUnused(self, m) =>
                  \A k \in 1..Len(folder.files), r \in 1..Len(ReferenceLines) :
                      (folder.files[k].readable /\ ReferenceLines[r] = "\t\t[" \o m \o "]")
                      => \A pos \in 0..Len(folder.files[k].content) :
                            ~FlaggedUnused(
                                validate_pbip(NewValidator, config,
                                    WithLine(folder, folder.files[k].name,
                                             ReferenceLines[r], pos), 0), m)

\* bi_doc_generator has built the model of the folder
Built == tool = "bi_doc_generator" /\ builder.result = "True"

\* the tables on the many side and on the one side of the relationships read
FromTables(b) == {b.relationships[r].fromTable : r \in DOMAIN b.relationships}
ToTables(b) == {from_table(b.relationships[r].to) : r \in DOMAIN b.relationships}

TypeOf(b, name) == {b.tables[t].type : t \in {u \in DOMAIN b.tables : b.tables[u].name = name}}

\* C14: after build(), every table that is the fromTable of a relationship
\* read from relationships.tmdl is a Fact, and every table that is only on
\* the to side of relationships is a Dimension; a relationship from Sales to
\* Date, written Sales.DateKey or Sales[DateKey], makes Sales a Fact and
\* Date a Dimension (Date being the fromTable of no relationship).
C14_FactAndDimension ==
    Built =>
        /\ \A t \in DOMAIN builder.tables :
              LET tb == builder.tables[t]
              IN  /\ tb.name \in FromTables(builder) => tb.type = "Fact"
                  /\ tb.name \in ToTables(builder) \ FromTables(builder)
                        => tb.type = "Dimension"
        /\ \A r \in DOMAIN builder.relationships :
              LET rel == builder.relationships[r]
              IN  (/\ rel.from \in {"Sales.DateKey", "Sales[DateKey]"}
                   /\ rel.to \in {"Date.DateKey", "Date[DateKey]"})
                  => /\ TypeOf(builder, "Sales") \subseteq {"Fact"}
                     /\ "Date" \notin FromTables(builder)
                           => TypeOf(builder, "Date") \subseteq {"Dimension"}

\* both notations read from one file, Sales a Fact and Date a Dimension
C14_BothNotations ==
    /\ Built
    /\ \E r \in DOMAIN builder.relationships : builder.relationships[r].from = "Sales.DateKey"
    /\ \E r \in DOMAIN builder.relationships : builder.relationships[r].from = "Sales[DateKey]"
    /\ TypeOf(builder, "Sales") = {"Fact"}
    /\ TypeOf(builder, "Date") = {"Dimension"}

\* C15: after build(), a table that is neither the fromTable nor the to
\* table of any relationship has the type Unknown.
C15_UnrelatedIsUnknown ==
    Built =>
        \A t \in DOMAIN builder.tables :
            builder.tables[t].name \notin FromTables(builder) \cup ToTables(builder)
            => builder.tables[t].type = "Unknown"

\* what each line of DocTableLines declares
Declared(line) ==
    CASE line = "\tcolumn Amount" -> [kind |-> "column", name |-> "Amount"]
      [] line = "\tcolumn 'Order Date'" -> [kind |-> "column", name |-> "Order Date"]
      [] line = "\tmeasure X1 = 1" -> [kind |-> "measure", name |-> "X1"]
      [] line = "\tmeasure 'Net Sales' =" -> [kind |-> "measure", name |-> "Net Sales"]
      [] OTHER -> [kind |-> "", name |-> ""]

\* the names a table file declares with a keyword, in the order of its lines
RECURSIVE DeclaredNames(_, _)
DeclaredNames(content, kind) ==
    IF content = <<>> THEN <<>>
    ELSE (IF Declared(Head(content)).kind = kind
          THEN <<Declared(Head(content)).name>> ELSE <<>>)
         \o DeclaredNames(Tail(content), kind)

NamesOf(seq) == [k \in DOMAIN seq |-> seq[k].name]

\* the file of tables/ a table entry was read from
SourceOf(tb) ==
    CHOOSE f \in Range(doc_dir.tables) : f.name = tb.file

\* C16: for every table file read by build(), the columns of the table
\* entry are the columns the file declares and its measures the measures
\* the file declares, each once and in the order of the file.
C16_CountsAndOrder ==
    Built =>
        \A t \in DOMAIN builder.tables :
            LET tb == builder.tables[t]
            IN  /\ NamesOf(tb.columns) = DeclaredNames(SourceOf(tb).content, "column")
                /\ NamesOf(tb.measures) = DeclaredNames(SourceOf(tb).content, "measure")

\* a table read from a file of one column between two measures
C16_TwoMeasuresOneColumn ==
    /\ Built
    /\ \E t \in DOMAIN builder.tables :
          /\ SourceOf(builder.tables[t]).content
                = <<"table Sales", "\tmeasure 'Net Sales' =", "\tcolumn Amount",
                    "\tmeasure X1 = 1">>
          /\ NamesOf(builder.tables[t].columns) = <<"Amount">>
          /\ NamesOf(builder.tables[t].measures) = <<"Net Sales", "X1">>

\* the keywords the claim lets end an expression
ReservedKeywords ==
    {"description", "displayFolder", "formatString", "lineageTag", "annotation",
     "column", "measure", "partition", "table"}

\* the first token of a line, without the ':' that closes a property name
FirstToken(line) == SplitHead(SplitHead(first_word(line), ":"), "=")

\* the lines from line k up to, and not including, the next line whose first
\* token is a reserved keyword
RECURSIVE LinesUntilKeyword(_, _)
LinesUntilKeyword(content, k) ==
    IF k > Len(content) \/ FirstToken(content[k]) \in ReservedKeywords THEN <<>>
    ELSE <<content[k]>> \o LinesUntilKeyword(content, k + 1)

\* the text behind '=' on a line that declares a measure
AfterEquals(line) == From(line, IndexOf(line, "=", 1) + 1)

\* the expression of the measure declared on line k of a file, as the claim
\* has it; blanks around the whole expression are not counted as part of it
ExpectedExpression(content, k) ==
    Strip(JoinNames(<<AfterEquals(content[k])>> \o LinesUntilKeyword(content, k + 1), "\n"))

\* C17: the expression of every measure is the text from behind the '=' of
\* its declaration up to the next line whose first token is a reserved
\* keyword, with every line as it is in the file; the lines of a column or
\* partition block that follows the measure are not part of it.
C17_ExpressionVerbatim ==
    Built =>
        \A t \in DOMAIN builder.tables :
            LET tb == builder.tables[t]
                content == SourceOf(tb).content
                ks == Sorted({k \in DOMAIN content : Declared(content[k]).kind = "measure"})
            IN  \A m \in DOMAIN tb.measures :
                    m \in DOMAIN ks
                    => tb.measures[m].expression = ExpectedExpression(content, ks[m])

\* the indexes of the files of a folder that cannot be read
Unreadable(f) == {k \in DOMAIN f.files : ~f.files[k].readable}

\* the folder with every file that cannot be read replaced by a readable
\* file of the same name that has no line
Recovered(f) ==
    [f EXCEPT !.files =
        [k \in DOMAIN f.files |->
            IF f.files[k].readable THEN f.files[k]
            ELSE [f.files[k] EXCEPT !.readable = TRUE, !.content = <<>>]]]

IsParserWarning(w) == w.type = "Parser"

\* C18: when files of the folder cannot be read, validate_pbip ends with one
\* 'Parser' warning for each such file, with the errors and the other
\* warnings it records for the folder in which those files are readable and
\* empty, and with the score calculated from all of them.
C18_PartialFailureRecovery ==
    (Validated /\ Unreadable(folder) # {}) =>
        /\ \A k \in Unreadable(folder) :
              Cardinality({j \in DOMAIN warnings :
                              /\ IsParserWarning(warnings[j])
                              /\ warnings[j].file = folder.files[k].name}) = 1
        /\ \E seed \in HashSeeds :
              LET w == validate_pbip(NewValidator, config, Recovered(folder), seed)
              IN  /\ errors = w.errors
                  /\ SelectSeq(warnings, LAMBDA x : ~IsParserWarning(x)) = w.warnings
        /\ score = Max(0, 100 - 10 * Len(errors) - 2 * Len(warnings))

\* one file cannot be read, and the bidirectional filter of the other file
\* is recorded and counted
C18_OtherFileChecked ==
    /\ Validated
    /\ Unreadable(folder) # {}
    /\ \E j \in DOMAIN warnings : IsParserWarning(warnings[j])
    /\ \E k \in DOMAIN folder.files :
          /\ folder.files[k].readable
          /\ HasError("MODEL_BI_DI_FILTER", folder.files[k].name)
    /\ score = 100 - 10 * Len(errors) - 2 * Len(warnings)

\* C19: a project none of whose files can be read ends validate_pbip with
\* exactly one error and the score 0, and a model folder none of whose files
\* can be read ends check_governance with one failure and the score 0.
C19_UnreadableProject ==
    /\ (Validated /\ folder.files # <<>> /\ Unreadable(folder) = DOMAIN folder.files)
          => (Len(errors) = 1 /\ score = 0)
    /\ ( /\ tool = "check_governance" /\ cg_done
         /\ ~model_dir.model.readable
         /\ ~model_dir.relationships.readable
         /\ model_dir.tables # <<>>
         /\ \A k \in DOMAIN model_dir.tables : ~model_dir.tables[k].readable )
          => (cg.model_failures = 1 /\ cg.score = 0)

\* C20: whatever was validated before with the same validator object, the
\* errors, warnings, skipped checks, measure inventory, reference counts and
\* score after validate_pbip on a folder are those a new validator object
\* gives for that folder.
C20_ProjectIndependence ==
    (tool = "bi_governance_check" /\ runs >= 1) =>
        \E seed \in HashSeeds :
            LET alone == validate_pbip(NewValidator, config, folder, seed)
            IN  /\ errors = alone.errors
                /\ warnings = alone.warnings
                /\ skipped_checks = alone.skipped_checks
                /\ all_measures = alone.all_measures
                /\ measure_references = alone.measure_references
                /\ score = alone.score

\* number of positions of a sequence that hold x
Count(seq, x) == Cardinality({k \in DOMAIN seq : seq[k] = x})

AllWritten == tool = "log_to_csv" /\ \A w \in Writers : writers[w].pc = "done"

\* C21: when concurrent calls of log_to_csv have all returned, the log holds
\* exactly one header row, as its first row, followed by one row for every
\* call (and the rows that were there before), whatever the interleaving of
\* the calls' steps was
C21_OneHeaderOneRowPerWrite ==
    AllWritten =>
        /\ log_file.rows # <<>>
        /\ log_file.rows[1] = fieldnames
        /\ Count(log_file.rows, fieldnames) = 1
        /\ Len(log_file.rows) = 1 + Count(log_file.rows, PriorRow) + MaxWriters
        /\ \A r \in LogRows :
               Count(log_file.rows, r)
                 = Cardinality({w \in Writers : writers[w].row = r})

ChecksRun == tool = "validators" /\ logs.state = "run"

\* C22: the checks of validators.py are total: whatever the model.bim holds,
\* a relationship without fromTable or toTable, a table or a measure
\* without a name, a description that is not text, run_anti_gravity gets a
\* list of issues from every check and none of them raises
C22_ChecksNeverRaise == ChecksRun => logs.outcome.raised = ""

\* C23: only enabled rules are evaluated: after validate_pbip, no recorded
\* error belongs to a rule (auto_date_time, bi_directional_filters,
\* many_to_many) that the configuration does not enable; for auto_date_time
\* that covers every MODEL_AUTO_DATE_TIME_* code
C23_OnlyEnabledRules ==
    Validated =>
        \A j \in 1..Len(errors) :
            ErrorRule(errors[j]) \in RuleNames => config[ErrorRule(errors[j])]

\* the findings a check of the given documented code has recorded for a file
FindingsOf(code, name) ==
    IF code = "auto_date_time"
    THEN {j \in 1..Len(errors) :
            /\ errors[j].code \in {"MODEL_AUTO_DATE_TIME_PROPERTY", "MODEL_AUTO_DATE_TIME_LEGACY"}
            /\ errors[j].file = name}
    ELSE IF code = "bi_di_filter"
    THEN {j \in 1..Len(errors) :
            errors[j].code = "MODEL_BI_DI_FILTER" /\ errors[j].file = name}
    ELSE IF code = "hardcoded_colors"
    THEN {j \in 1..Len(errors) :
            errors[j].code = "VISUAL_HARDCODED_COLOR" /\ errors[j].file = name}
    ELSE {j \in 1..Len(warnings) :
            warnings[j].rule = "Missing description" /\ warnings[j].file = name}

\* C24: for each of the four documented codes, a file that holds the line
\* '// SKIP_CHECK: <code> - <reason>' has no finding of that check recorded
\* for it by validate_pbip
C24_DirectiveSuppresses ==
    Validated =>
        \A c \in 1..Len(DocumentedCodes) :
            /\ \A k \in 1..Len(folder.files) :
                  Directive(DocumentedCodes[c]) \in Range(folder.files[k].content)
                      => FindingsOf(DocumentedCodes[c], folder.files[k].name) = {}
            /\ \A k \in 1..Len(folder.visuals) :
                  (\E l \in 1..Len(folder.visuals[k].text) :
                       Contains(folder.visuals[k].text[l], Directive(DocumentedCodes[c])))
                      => FindingsOf(DocumentedCodes[c], folder.visuals[k].name) = {}

Washed == tool = "car_wash" /\ wash.runs >= 1

\* C27: once fix_auto_datetime has run on a model.tmdl, whatever the file
\* held before, the Auto Date/Time check of check_governance passes on it
\* (time_intel_enabled is False), and a second run applies no further fix
C27_WashedModelPasses ==
    /\ Washed => ~time_intel_enabled(wash.model)
    /\ (tool = "car_wash" /\ wash.runs >= 2) => wash.fixes_applied = <<>>

\* C25: batch_process creates a safety copy of a project, with the suffix
\* _Standardized, before any remediation: the car wash never runs on a
\* project that has no safety copy
C25_SafetyCopyBeforeWash ==
    tool = "batch_runner" =>
        \A j \in 1..Len(batch.calls) :
            batch.calls[j].op = "wash" => disk[batch.calls[j].project].safety_copy

\* the subprocesses batch_process launched for the project at position k
CallsOf(k) == SelectSeq(batch.calls, LAMBDA c : c.project = k)

OpsOf(k) == [j \in 1..Len(CallsOf(k)) |-> CallsOf(k)[j].op]

\* C26: for every project batch_process has finished, the PRE-WASH check was
\* the first thing run; the car wash ran exactly when the PRE-WASH status
\* was not PASS; when it ran, the POST-WASH check ran after it and what that
\* check returned is the post status and score; documentation generation
\* ran only after the last check, and only with a post score of 100
C26_StepOrder ==
    tool = "batch_runner" =>
        \A k \in 1..Len(batch.results) :
            LET r == batch.results[k]
                calls == CallsOf(k)
                ops == OpsOf(k)
                checks == IF r.pre_status = "PASS" THEN <<"check">>
                          ELSE <<"check", "wash", "check">>
                last == calls[Len(checks)]
            IN  /\ Len(ops) >= Len(checks)
                /\ SubSeq(ops, 1, Len(checks)) = checks
                /\ calls[1].status = r.pre_status /\ calls[1].score = r.pre_score
                /\ last.status = r.post_status /\ last.score = r.post_score
                /\ ops \in {checks, Append(checks, "docs")}
                /\ ops = Append(checks, "docs") => r.post_score = 100

\* C26 witness: a finished project that failed the PRE-WASH check, was
\* washed, passed the POST-WASH check and had its documentation generated
C26_WashedThenDocumented ==
    /\ tool = "batch_runner"
    /\ batch.results # <<>>
    /\ batch.results[1].pre_status = "FAIL"
    /\ batch.results[1].post_status = "PASS"
    /\ OpsOf(1) = <<"check", "wash", "check", "docs">>

ModelChecked == tool = "check_governance" /\ cg_done

\* C28: for a model folder check_governance has handled, the three verdicts
\* agree: model_failures is 0 exactly when the score is 100, exactly when
\* the logged overall_status is PASS; and documentation generation is
\* attempted only for a model with model_failures = 0
C28_VerdictsAgree ==
    ModelChecked =>
        /\ (cg.model_failures = 0) <=> (cg.score = 100)
        /\ (cg.score = 100) <=> (cg.overall_status = "PASS")
        /\ cg.documented => cg.model_failures = 0

\* C28 witness: a model whose only finding is a measure without description:
\* one failure, a score of 95, status FAIL, no documentation, in a folder
\* that would have been documented
C28_OneMissingDescription ==
    /\ ModelChecked
    /\ Len(cg.missing_desc_list) = 1
    /\ cg.model_failures = 1
    /\ cg.score = 95
    /\ cg.overall_status = "FAIL"
    /\ model_dir.semantic_model /\ model_dir.report_exists
    /\ ~cg.documented

\* the state of the scan before each line of the file, and after the last
RECURSIVE ScanStates(_, _, _, _)
ScanStates(st, lines, k, t_file) ==
    IF k > Len(lines) THEN <<st>>
    ELSE <<st>> \o ScanStates(scan_line(st, read_line(lines, k), t_file), lines, k + 1, t_file)

\* line k is taken as the start of a measure
StartsMeasure(lines, k) ==
    /\ ~StartsWith(Strip(lines[k]), "///")
    /\ cg_measure_match(read_line(lines, k)).matched

\* a measure declaration: a line that starts a measure and names it
DeclaredAt(lines) ==
    {k \in 1..Len(lines) :
        StartsMeasure(lines, k) /\ cg_measure_match(read_line(lines, k)).name # ""}

\* where the measure declared at line k ends: the next line that starts a
\* measure or that leaves the scan without a current measure, else the end
EndOf(lines, states, k) ==
    MinOf({j \in (k + 1)..Len(lines) :
              StartsMeasure(lines, j) \/ states[j + 1].current_measure = ""},
          Len(lines) + 1)

\* the declarations that have a description when they end
DescribedAt(lines, states) ==
    {k \in DeclaredAt(lines) : states[EndOf(lines, states, k)].has_description}

ScannedFile == model_dir.tables[1]

DirectiveCodeOf(line) ==
    LET e == FirstMatchEnd(line, <<"//", WS0, "skip_check", WS0, ":", WS0>>, TRUE) IN
    IF e = 0 THEN "" ELSE Lower(SubSeq(line, e, WordEnd(line, e)))

\* C30: has_skip_comment answers True only when some directive of the
\* content names exactly check_code or a code of its alias group; a
\* directive whose code merely begins with such a code (bidirectional_totals
\* for bidi, colorscale for colors) does not suppress the check
C30_ExactCodeOnly ==
    answer = "True" =>
        \E k \in 1..Len(query.content) :
            \/ DirectiveCodeOf(query.content[k]) = query.check_code
            \/ SameGroup(DirectiveCodeOf(query.content[k]), query.check_code)

=============================================================================
